---- MODULE Spec2Model ----
(***************************************************************************)
(* A model of the composition (IME) reconciliation of the editor: the     *)
(* block model, the offset-key addressing, the DOM the browser leaves      *)
(* behind, the mutation observer, the composition handler and the          *)
(* reconstruction of blocks and of the selection from the live DOM.        *)
(*                                                                         *)
(* Offsets are 0-based as in the source; a text is a sequence of           *)
(* one-character strings, so the character at offset i of t is t[i + 1].   *)
(***************************************************************************)
EXTENDS Integers, Sequences, FiniteSets, TLC

\* ------------------------------------------------------------------ bounds
\* Longest text of a block of the document before the composition.
MaxText == 2
\* Most children the browser leaves under one block root.
MaxKids == 2
\* Most nodes directly under the editable container when a selection is
\* reconstructed on its own, and the largest DOM offset of its endpoints.
MaxRootKids == 2
MaxDomOffset == 1

\* ------------------------------------------------------- values and helpers
Chars == {"a", "b"}
NL == "\n"

NoEntity == "none"
NoKey == <<>>
\* A path names a DOM node by the child indices (from 1) leading to it from
\* the editable container; NoPath stands for null.
NoPath == <<0>>


RECURSIVE Flatten(_)
Flatten(ss) == IF ss = <<>> THEN <<>> ELSE Head(ss) \o Flatten(Tail(ss))

Front(s) == SubSeq(s, 1, Len(s) - 1)
Last(s) == s[Len(s)]

SeqsUpTo(S, n) == UNION {[1..k -> S] : k \in 0..n}

\* ------------------------------------------------------ CharacterMetadata
EMPTY == [style |-> {}, entity |-> NoEntity]
BOLD == [style |-> {"BOLD"}, entity |-> NoEntity]
LINK == [style |-> {}, entity |-> "e1"]
Metas == {EMPTY, BOLD, LINK}

\* ------------------------------------------------------------ ContentBlock
ContentBlock(key, text, characterList) ==
  [key |-> key, text |-> text, characterList |-> characterList, type |-> "unstyled",
   depth |-> 0, data |-> <<>>]

\* characterList.get(offset): undefined past the end of the list.
HasCharAt(block, offset) == offset >= 0 /\ offset < Len(block.characterList)
CharAt(block, offset) == block.characterList[offset + 1]

\* ContentState.getBlockForKey / getBlockMap().keySeq()
BlockKeys(content) == [i \in 1..Len(content) |-> content[i].key]
HasBlock(content, key) == \E i \in 1..Len(content) : content[i].key = key
BlockForKey(content, key) ==
  content[CHOOSE i \in 1..Len(content) : content[i].key = key]

\* ---------------------------------------------------------- DraftOffsetKey
Encode(blockKey, decoratorKey, leafKey) == <<blockKey, decoratorKey, leafKey>>
Decode(offsetKey) ==
  [blockKey |-> offsetKey[1], decoratorKey |-> offsetKey[2], leafKey |-> offsetKey[3]]

\* --------------------------------------------------------------- BlockTree
\* The leaves of a block: the maximal runs of characters of equal metadata,
\* each {start, end}; an empty block has the one leaf {0, 0}. The tree holds
\* one decorator range (key 0) with the leaves, keyed 0, 1, ... in order.
LeafStarts(block) ==
  {i \in 0..(Len(block.characterList) - 1) :
     i = 0 \/ block.characterList[i] # block.characterList[i + 1]}

RECURSIVE LeavesFrom(_, _)
LeavesFrom(block, start) ==
  LET n == Len(block.characterList)
      later == {i \in LeafStarts(block) : i > start}
      end == IF later = {} THEN n
             ELSE CHOOSE i \in later : \A j \in later : i <= j
  IN  IF end >= n THEN <<[start |-> start, end |-> n]>>
      ELSE <<[start |-> start, end |-> end]>> \o LeavesFrom(block, end)

BlockTree(block) == <<[leaves |-> LeavesFrom(block, 0)]>>

\* getIn([decoratorKey, 'leaves', leafKey]): undefined when the path is missing.
HasLeaf(tree, decoratorKey, leafKey) ==
  /\ decoratorKey >= 0 /\ decoratorKey < Len(tree)
  /\ leafKey >= 0 /\ leafKey < Len(tree[decoratorKey + 1].leaves)
GetLeaf(tree, decoratorKey, leafKey) == tree[decoratorKey + 1].leaves[leafKey + 1]

\* --------------------------------------------------------------------- DOM
\* A node: its tag, its data-offset-key attribute (NoKey when absent), whether
\* it carries the data-block attribute, its character data (text nodes) and
\* its children.
Text(data) == [tag |-> "#text", okey |-> NoKey, block |-> FALSE, data |-> data, kids |-> <<>>]
Br == [tag |-> "br", okey |-> NoKey, block |-> FALSE, data |-> <<>>, kids |-> <<>>]
Span(okey, kids) == [tag |-> "span", okey |-> okey, block |-> FALSE, data |-> <<>>, kids |-> kids]
Font(kids) == [tag |-> "font", okey |-> NoKey, block |-> FALSE, data |-> <<>>, kids |-> kids]
BlockDiv(blockKey, kids) ==
  [tag |-> "div", okey |-> Encode(blockKey, 0, 0), block |-> TRUE, data |-> <<>>, kids |-> kids]
Container(kids) == [tag |-> "div", okey |-> NoKey, block |-> FALSE, data |-> <<>>, kids |-> kids]

RECURSIVE NodeAt(_, _)
NodeAt(root, path) ==
  IF path = <<>> THEN root ELSE NodeAt(root.kids[Head(path)], Tail(path))

RECURSIVE IsPath(_, _)
IsPath(root, path) ==
  \/ path = <<>>
  \/ /\ Head(path) \in 1..Len(root.kids)
     /\ IsPath(root.kids[Head(path)], Tail(path))

\* The paths of the subtree of `path`, in document order (the node first).
RECURSIVE Preorder(_, _)
Preorder(root, path) ==
  LET node == NodeAt(root, path)
  IN  <<path>> \o
      Flatten([i \in 1..Len(node.kids) |-> Preorder(root, path \o <<i>>)])

\* Node.textContent
RECURSIVE TextContent(_)
TextContent(node) ==
  IF node.tag = "#text" THEN node.data
  ELSE Flatten([i \in 1..Len(node.kids) |-> TextContent(node.kids[i])])

\* ------------------------------------------------------------- EditorState
\* editorState.getBlockTree(blockKey): the tree of the block in the current
\* content (the editor state keeps its tree map in step with the content).
getBlockTree(editorState, blockKey) ==
  BlockTree(BlockForKey(editorState.content, blockKey))

\* -------------------------------------------------- addressing on the DOM
getOffsetKeyFromNode(node) ==
  IF node.tag # "#text" THEN node.okey ELSE NoKey

\* The predicates the callers pass: node => nodeName is 'span',
\* node => node.hasAttribute('data-block'), and none.
IsSpan == "span"
HasDataBlock == "data-block"
AnyNode == "any"
Satisfies(predicate, node) ==
  CASE predicate = IsSpan -> node.tag = "span"
    [] predicate = HasDataBlock -> node.block
    [] OTHER -> TRUE

\* The nearest node with an offset key matching the predicate, from the node
\* itself up to the container (no node above the container carries a key);
\* NoPath when there is none or the node is null.
findAncestorWithOffsetKey(root, path, predicate) ==
  IF path = NoPath THEN NoPath
  ELSE LET found == {n \in 0..Len(path) :
                       LET searchNode == NodeAt(root, SubSeq(path, 1, n))
                       IN  /\ getOffsetKeyFromNode(searchNode) # NoKey
                           /\ Satisfies(predicate, searchNode)}
       IN  IF found = {} THEN NoPath
           ELSE SubSeq(path, 1, CHOOSE n \in found : \A m \in found : m <= n)


\* --------------------------------------------------- getReconstructedBlock
\* A result of a function that may throw.
Ret(v) == [threw |-> FALSE, value |-> v]
Raise == [threw |-> TRUE, value |-> EMPTY]

getMetadataForOffsetKey_FirstChar(offsetKey, editorState) ==
  LET k == Decode(offsetKey)
  IN  IF ~HasBlock(editorState.content, k.blockKey) THEN Ret(EMPTY)
      ELSE LET block == BlockForKey(editorState.content, k.blockKey)
           IN  IF HasCharAt(block, 0) THEN Ret(CharAt(block, 0)) ELSE Ret(EMPTY)

getMetadataForOffsetKey(offsetKey, editorState) ==
  LET k == Decode(offsetKey)
  IN  IF ~HasBlock(editorState.content, k.blockKey) THEN Ret(EMPTY)
      ELSE LET block == BlockForKey(editorState.content, k.blockKey)
               tree == getBlockTree(editorState, k.blockKey)
           IN  \* destructuring {start} of a missing leaf throws a TypeError
               IF ~HasLeaf(tree, k.decoratorKey, k.leafKey) THEN Raise
               ELSE LET start == GetLeaf(tree, k.decoratorKey, k.leafKey).start
                    IN  IF HasCharAt(block, start) THEN Ret(CharAt(block, start))
                        ELSE Ret(EMPTY)

AcceptNode_TextOnly(node) == node.tag = "#text"

\* The node filter of the iterator: text nodes and BR elements are returned;
\* a node iterator goes on into the children of a node its filter rejects.
AcceptNode(node) == node.tag = "#text" \/ node.tag = "br"
IteratedNodes(root, blockPath) ==
  SelectSeq(Preorder(root, blockPath), LAMBDA p : AcceptNode(NodeAt(root, p)))

\* What one iterated node adds: its text and the offset key of its leaf span.
NodeText(node) == IF node.tag = "#text" THEN node.data ELSE <<NL>>
LeafKeyOf(root, path) ==
  LET leafSpan == findAncestorWithOffsetKey(root, path, IsSpan)
  IN  IF leafSpan = NoPath THEN NoKey ELSE getOffsetKeyFromNode(NodeAt(root, leafSpan))

AddedMetadata(offsetKey, editorState) ==
  IF offsetKey # NoKey THEN getMetadataForOffsetKey(offsetKey, editorState)
  ELSE Ret(EMPTY)

getReconstructedBlock_AsNew(block, blockPath, root, editorState) ==
  LET nodes == IteratedNodes(root, blockPath)
      meta(i) == AddedMetadata(LeafKeyOf(root, nodes[i]), editorState)
      text == Flatten([i \in 1..Len(nodes) |-> NodeText(NodeAt(root, nodes[i]))])
      characterList ==
        Flatten([i \in 1..Len(nodes) |->
                   [j \in 1..Len(NodeText(NodeAt(root, nodes[i]))) |-> meta(i).value]])
  IN  IF \E i \in 1..Len(nodes) : meta(i).threw
      THEN [threw |-> TRUE, value |-> block]
      ELSE [threw |-> FALSE, value |-> ContentBlock(block.key, text, characterList)]

getReconstructedBlock_OnePerNode(block, blockPath, root, editorState) ==
  LET nodes == IteratedNodes(root, blockPath)
      meta(i) == AddedMetadata(LeafKeyOf(root, nodes[i]), editorState)
      text == Flatten([i \in 1..Len(nodes) |-> NodeText(NodeAt(root, nodes[i]))])
  IN  IF \E i \in 1..Len(nodes) : meta(i).threw
      THEN [threw |-> TRUE, value |-> block]
      ELSE [threw |-> FALSE,
            value |-> [block EXCEPT !.text = text,
                                    !.characterList = [i \in 1..Len(nodes) |-> meta(i).value]]]

getReconstructedBlock(block, blockPath, root, editorState) ==
  LET nodes == IteratedNodes(root, blockPath)
      meta(i) == AddedMetadata(LeafKeyOf(root, nodes[i]), editorState)
      text == Flatten([i \in 1..Len(nodes) |-> NodeText(NodeAt(root, nodes[i]))])
      characterList ==
        Flatten([i \in 1..Len(nodes) |->
                   [j \in 1..Len(NodeText(NodeAt(root, nodes[i]))) |-> meta(i).value]])
  IN  IF \E i \in 1..Len(nodes) : meta(i).threw
      THEN [threw |-> TRUE, value |-> block]
      ELSE [threw |-> FALSE,
            value |-> [block EXCEPT !.text = text, !.characterList = characterList]]

\* ------------------------------------------------------------------- state
Editors == {"e1", "e2"}

VARIABLES
  mounted,  \* the editors on the page
  mode,     \* the handler set each editor dispatches its events to
  latest,   \* editor._latestEditorState of each editor
  dom,      \* the DOM under each editor's editable container
  domSel,   \* the document's DOM selection, as last read
  resolved, stillComposing, domObserver, selectionAtCompositionStart,
            \* the module-level variables of the composition handler
  timers,   \* the deferred resolutions not yet run
  used,     \* the signals and browser edits delivered so far
  session,  \* what happened in the current composition session
  ev,       \* what the last handled event did
  out       \* the result of the last function applied on its own

editorVars == <<mounted, mode, latest, dom, domSel>>
handlerVars == <<resolved, stillComposing, domObserver, selectionAtCompositionStart>>
traceVars == <<timers, used, session, ev>>
vars == <<editorVars, handlerVars, traceVars, out>>

SelectionState(anchorKey, anchorOffset, focusKey, focusOffset, isBackward, hasFocus) ==
  [anchorKey |-> anchorKey, anchorOffset |-> anchorOffset,
   focusKey |-> focusKey, focusOffset |-> focusOffset,
   isBackward |-> isBackward, hasFocus |-> hasFocus]

\* SelectionState.createEmpty(key)
createEmpty(key) == SelectionState(key, 0, key, 0, FALSE, FALSE)

\* The entities of the document: the link the characters of LINK belong to.
EntityMap == [e1 |-> "LINK"]

EditorState(content, selection) ==
  [content |-> content, entityMap |-> EntityMap, selection |-> selection,
   inCompositionMode |-> FALSE,
   lastChangeType |-> "", selectionBefore |-> selection, selectionAfter |-> selection]

\* The rendering collaborator: a block root carrying the block's key, holding
\* one leaf span per leaf of the block's tree, each with its offset key and
\* one text node (a line break for the leaf of an empty block).
RenderLeaf(block, leafKey, leaf) ==
  Span(Encode(block.key, 0, leafKey),
       IF leaf.end = leaf.start THEN <<Br>>
       ELSE <<Text(SubSeq(block.text, leaf.start + 1, leaf.end))>>)
RenderBlock(block) ==
  LET leaves == BlockTree(block)[1].leaves
  IN  BlockDiv(block.key, [i \in 1..Len(leaves) |-> RenderLeaf(block, i - 1, leaves[i])])
Render(content) == Container([i \in 1..Len(content) |-> RenderBlock(content[i])])

\* An editor created empty: one empty block.
BlankEditor == EditorState(<<ContentBlock("b1", <<>>, <<>>)>>, createEmpty("b1"))

NoSelection == [anchorNode |-> NoPath, anchorOffset |-> 0,
                focusNode |-> NoPath, focusOffset |-> 0]
NoOut == [op |-> "none"]

\* ------------------------------------------------------------- DOMObserver
\* A value of the mutations map: null, or the block root node, named by its
\* block key (one root node per block key exists in the DOM).
NullNode == [isNull |-> TRUE, key |-> ""]
NodeRef(blockKey) == [isNull |-> FALSE, key |-> blockKey]

\* A MutationRecord: its type, its target (a node of the container), and the
\* removed and the added nodes.
MutationRecord(type, target, removedNodes, addedNodes) ==
  [type |-> type, target |-> target,
   removedNodes |-> removedNodes, addedNodes |-> addedNodes]

NoObserver == [exists |-> FALSE, container |-> "", mutations |-> <<>>, pending |-> <<>>]
\* new DOMObserver(container) and start(): observing, nothing recorded yet.
NewObserver(container) ==
  [exists |-> TRUE, container |-> container, mutations |-> <<>>, pending |-> <<>>]

\* getSelectionOffsetKeyForNode: the node's own key, else the first key
\* found among its children, depth first.
RECURSIVE getSelectionOffsetKeyForNode(_)
getSelectionOffsetKeyForNode(node) ==
  IF node.tag = "#text" THEN NoKey
  ELSE IF getOffsetKeyFromNode(node) # NoKey THEN getOffsetKeyFromNode(node)
  ELSE LET keys == [i \in 1..Len(node.kids) |-> getSelectionOffsetKeyForNode(node.kids[i])]
           hits == {i \in 1..Len(keys) : keys[i] # NoKey}
       IN  IF hits = {} THEN NoKey
           ELSE keys[CHOOSE i \in hits : \A j \in hits : i <= j]

\* findAncestorOffsetKey of a node added to or removed from the container.
findAncestorOffsetKey(node) == getSelectionOffsetKeyForNode(node)

addMutation_KeepFirst(mutations, offsetKey, blockNode) ==
  mutations @@ (Decode(offsetKey).blockKey :> blockNode)

addMutation(mutations, offsetKey, blockNode) ==
  (Decode(offsetKey).blockKey :> blockNode) @@ mutations

\* The block roots among the nodes: null is recorded for each one removed,
\* the node itself for each one added.
RECURSIVE RecordBlockNodes(_, _, _)
RecordBlockNodes(mutations, nodes, removed) ==
  IF nodes = <<>> THEN mutations
  ELSE LET node == Head(nodes)
           offsetKey == findAncestorOffsetKey(node)
           next == IF node.tag # "#text" /\ node.block /\ offsetKey # NoKey
                   THEN addMutation(mutations, offsetKey,
                                    IF removed THEN NullNode
                                    ELSE NodeRef(Decode(offsetKey).blockKey))
                   ELSE mutations
       IN  RecordBlockNodes(next, Tail(nodes), removed)

registerMutation_ByLeafKey(mutations, mutation, root) ==
  LET ancestorWithOffsetKey == findAncestorWithOffsetKey(root, mutation.target, AnyNode)
  IN  IF ancestorWithOffsetKey = NoPath
      THEN IF mutation.type = "childList"
           THEN RecordBlockNodes(
                  RecordBlockNodes(mutations, mutation.removedNodes, TRUE),
                  mutation.addedNodes, FALSE)
           ELSE mutations
      ELSE LET offsetKey == getOffsetKeyFromNode(NodeAt(root, ancestorWithOffsetKey))
           IN  addMutation(mutations, offsetKey, NodeRef(Decode(offsetKey).blockKey))

\* The tree the target of a record lies in: the container, or, for a change
\* reported from inside a block root that has been removed, that root (held
\* under a parent of its own so that paths keep their shape).
TreeOf(mutation, root) ==
  IF "detached" \in DOMAIN mutation THEN Container(<<mutation.detached>>) ELSE root
\* The block root node itself as a map value: the node of the container with
\* that key, or the removed node the record was reported from.
BlockNodeOf(mutation, blockKey) ==
  IF "detached" \in DOMAIN mutation
  THEN [isNull |-> FALSE, key |-> blockKey, detached |-> mutation.detached]
  ELSE NodeRef(blockKey)

registerMutation(mutations, mutation, root) ==
  LET tree == TreeOf(mutation, root)
      ancestorWithOffsetKey == findAncestorWithOffsetKey(tree, mutation.target, AnyNode)
  IN  IF ancestorWithOffsetKey = NoPath
      THEN IF mutation.type = "childList"
           THEN RecordBlockNodes(
                  RecordBlockNodes(mutations, mutation.removedNodes, TRUE),
                  mutation.addedNodes, FALSE)
           ELSE mutations
      ELSE LET blockNode ==
                 findAncestorWithOffsetKey(tree, ancestorWithOffsetKey, HasDataBlock)
           IN  IF blockNode = NoPath THEN mutations
               ELSE LET offsetKey == getOffsetKeyFromNode(NodeAt(tree, blockNode))
                    IN  addMutation(mutations, offsetKey,
                                    BlockNodeOf(mutation, Decode(offsetKey).blockKey))

RECURSIVE registerMutations(_, _, _)
registerMutations(mutations, records, root) ==
  IF records = <<>> THEN mutations
  ELSE registerMutations(registerMutation(mutations, Head(records), root),
                         Tail(records), root)

\* stopAndFlushMutations: the records taken from the observer are registered
\* first; the accumulated map is returned.
stopAndFlushMutations(observer, root) ==
  registerMutations(observer.mutations, observer.pending, root)

\* The path of the block root node a map value names.
NodePath(root, ref) ==
  <<CHOOSE i \in 1..Len(root.kids) :
      /\ root.kids[i].block
      /\ root.kids[i].okey # NoKey
      /\ Decode(root.kids[i].okey).blockKey = ref.key>>

\* ------------------------------------------------ values of the trace state
NoSelectionAtStart == [set |-> FALSE, value |-> createEmpty("")]
SelectionAtStart_Collapsed(selection) ==
  [set |-> TRUE, value |-> createEmpty(selection.anchorKey)]
SelectionAtStart(selection) == [set |-> TRUE, value |-> selection]

NoSession ==
  [open |-> FALSE, ends |-> 0, resolutions |-> 0, pushes |-> 0,
   captured |-> createEmpty(""), began |-> createEmpty(""), editor |-> ""]
NoMutations == <<>>
NoEvent ==
  [type |-> "none", editor |-> "", wasComposing |-> FALSE, isComposing |-> FALSE,
   which |-> "", prevented |-> FALSE, scheduled |-> FALSE, handedToEdit |-> FALSE,
   flushed |-> FALSE, threw |-> "", pushed |-> FALSE, updated |-> FALSE,
   mutations |-> NoMutations, before |-> <<>>, container |-> ""]

\* The composition handler before any composition.
HandlerIdle ==
  /\ resolved = FALSE
  /\ stillComposing = FALSE
  /\ domObserver = NoObserver
  /\ selectionAtCompositionStart = NoSelectionAtStart
  /\ timers = {}
  /\ used = [signals |-> 0, edits |-> 0]
  /\ session = NoSession
  /\ ev = NoEvent

\* ------------------------------------- block reconstruction on its own
\* The blocks a document can hold before the composition: a text of at most
\* MaxText characters with any metadata on each.
PreTexts == SeqsUpTo({"a"}, MaxText)
PreBlocks(key) ==
  {ContentBlock(key, t, m) : <<t, m>> \in
     UNION {{<<t, m>> : m \in [1..Len(t) -> Metas]} : t \in PreTexts}}
OtherBlock == ContentBlock("b2", <<"b">>, <<BOLD>>)

\* What the browser may leave under the root of block b1: leaf spans keyed by
\* a leaf of b1, by a leaf of another block, by a leaf or a block the state
\* does not have, and nodes with no key at all.
ReconKeys(b1) ==
  {Encode("b1", 0, l) : l \in 0..Len(BlockTree(b1)[1].leaves)}
    \cup {Encode("b2", 0, 0), Encode("b9", 0, 0)}
SpanKids ==
  {<<Text(<<"a">>)>>, <<Text(<<"b", "a">>)>>, <<Font(<<Text(<<"b">>)>>), Br>>}
ReconShapes(b1) ==
  {Span(k, ks) : k \in ReconKeys(b1), ks \in SpanKids}
    \cup {Text(<<"b">>), Br}

ReconInit ==
  \E b1 \in PreBlocks("b1") :
    \E kids \in SeqsUpTo(ReconShapes(b1), MaxKids) :
      /\ latest = [e \in Editors |->
                     IF e = "e1" THEN EditorState(<<b1, OtherBlock>>, createEmpty("b1"))
                     ELSE BlankEditor]
      /\ dom = [e \in Editors |->
                  IF e = "e1"
                  THEN Container(<<BlockDiv("b1", kids), RenderBlock(OtherBlock)>>)
                  ELSE Render(BlankEditor.content)]
      /\ domSel = NoSelection
      /\ out = NoOut
      /\ mounted = {"e1"}
      /\ mode = [e \in Editors |-> "edit"]
      /\ HandlerIdle

Reconstruct ==
  /\ out.op = "none"
  /\ out' = [op |-> "block",
             res |-> getReconstructedBlock(latest["e1"].content[1], <<1>>,
                                           dom["e1"], latest["e1"])]
  /\ UNCHANGED <<editorVars, handlerVars, traceVars>>

ReconNext == Reconstruct
SpecRecon == ReconInit /\ [][ReconNext]_vars

\* ------------------------------------------ claims on block reconstruction
\* What the claims expect of a block's DOM, read off the tree itself: the
\* text nodes and line breaks of a subtree in document order, each with the
\* text it stands for.
RECURSIVE DomPieces(_, _)
DomPieces(root, path) ==
  LET node == NodeAt(root, path)
  IN  IF node.tag = "#text" THEN <<[path |-> path, text |-> node.data]>>
      ELSE IF node.tag = "br" THEN <<[path |-> path, text |-> <<NL>>]>>
      ELSE Flatten([i \in 1..Len(node.kids) |-> DomPieces(root, path \o <<i>>)])
DomText(root, path) ==
  LET ps == DomPieces(root, path) IN Flatten([i \in 1..Len(ps) |-> ps[i].text])
\* The offset in the block's DOM text at which piece i starts.
PieceStart(ps, i) == Len(Flatten([j \in 1..(i - 1) |-> ps[j].text]))

ReconBlockPath == <<1>>
ReconDone == out.op = "block"
ReconPre == latest["e1"].content[1]

\* C5: the text of a rebuilt block is the concatenation, in document order,
\* of the contents of all text nodes of the block's DOM subtree, every BR
\* element standing for one "\n": no text of the subtree is lost.
C5_RebuiltTextIsDomText ==
  (ReconDone /\ ~out.res.threw) =>
    out.res.value.text = DomText(dom["e1"], ReconBlockPath)

\* C5 witness: a block rebuilt from a DOM holding a line break and a text node
\* nested in an anonymous element next to another text node.
C5_Witness ==
  /\ ReconDone /\ ~out.res.threw
  /\ LET ps == DomPieces(dom["e1"], ReconBlockPath)
     IN  /\ \E i \in 1..Len(ps) : ps[i].text = <<NL>>
         /\ \E i \in 1..Len(ps) : Len(ps[i].path) = 4
         /\ Len(out.res.value.text) >= 3

\* The DOM of block b1 is its rendering with the one leaf `edited` changed:
\* every other leaf span is as rendered, the edited span keeps its key.
OneLeafEdited(edited) ==
  LET leaves == BlockTree(ReconPre)[1].leaves
      node == NodeAt(dom["e1"], ReconBlockPath)
  IN  /\ Len(leaves) >= 2
      /\ edited \in 1..Len(leaves)
      /\ Len(node.kids) = Len(leaves)
      /\ \A i \in 1..Len(leaves) :
           IF i = edited
           THEN /\ node.kids[i].tag = "span"
                /\ node.kids[i].okey = Encode(ReconPre.key, 0, i - 1)
                /\ node.kids[i] # RenderLeaf(ReconPre, i - 1, leaves[i])
           ELSE node.kids[i] = RenderLeaf(ReconPre, i - 1, leaves[i])

\* C6: when one leaf of a multi-leaf block is edited, every character that
\* an unaffected leaf contributes to the rebuilt block keeps the metadata
\* (style and entity) it had in the block before the composition.
C6_UnaffectedLeavesKeepMetadata ==
  ReconDone =>
    \A edited \in 1..MaxText :
      OneLeafEdited(edited) =>
        /\ ~out.res.threw
        /\ LET leaves == BlockTree(ReconPre)[1].leaves
               kidStart(i) ==
                 Len(Flatten([j \in 1..(i - 1) |->
                                DomText(dom["e1"], ReconBlockPath \o <<j>>)]))
           IN  \A i \in 1..Len(leaves) : i # edited =>
                 \A c \in 0..(leaves[i].end - leaves[i].start - 1) :
                   /\ kidStart(i) + c < Len(out.res.value.characterList)
                   /\ out.res.value.characterList[kidStart(i) + c + 1] =
                        CharAt(ReconPre, leaves[i].start + c)

\* C6 witness: the first leaf was edited and a later, styled leaf was not.
C6_Witness ==
  /\ ReconDone
  /\ OneLeafEdited(1)
  /\ CharAt(ReconPre, 1) # EMPTY
  /\ Len(out.res.value.text) >= 3

\* A piece of the DOM that cannot be mapped back to prior metadata: no leaf
\* span with an offset key above it, or a key naming a block or a leaf that
\* the state before the composition does not have.
Unmappable(root, path, editorState) ==
  LET found == {n \in 0..Len(path) :
                  LET nd == NodeAt(root, SubSeq(path, 1, n))
                  IN  nd.tag = "span" /\ nd.okey # NoKey}
  IN  \/ found = {}
      \/ LET nd == NodeAt(root, SubSeq(path, 1, CHOOSE n \in found : \A m \in found : m <= n))
             k == Decode(nd.okey)
         IN  \/ ~HasBlock(editorState.content, k.blockKey)
             \/ ~HasLeaf(BlockTree(BlockForKey(editorState.content, k.blockKey)),
                         k.decoratorKey, k.leafKey)

\* C7 as claimed: reconstruction never fails, and the characters of every
\* piece that cannot be mapped back get the empty metadata.
C7_UnmappableGetsEmpty ==
  ReconDone =>
    /\ ~out.res.threw
    /\ LET ps == DomPieces(dom["e1"], ReconBlockPath)
       IN  \A i \in 1..Len(ps) :
             Unmappable(dom["e1"], ps[i].path, latest["e1"]) =>
               \A c \in 1..Len(ps[i].text) :
                 out.res.value.characterList[PieceStart(ps, i) + c] = EMPTY

\* ----------------------------------------------- getReconstructedSelection
\* A point {blockKey, offset}, or null.
NoPoint == [blockKey |-> "", offset |-> -1]
Point(blockKey, offset) == [blockKey |-> blockKey, offset |-> offset]

\* The offset relative to the block: the DOM offset plus the text lengths of
\* the previous siblings met on the way up to the block root.
RECURSIVE OffsetInBlock(_, _, _, _)
OffsetInBlock(root, currentNode, blockNode, offset) ==
  IF currentNode = blockNode THEN offset
  ELSE IF Last(currentNode) > 1
       THEN LET previousSibling == Front(currentNode) \o <<Last(currentNode) - 1>>
            IN  OffsetInBlock(root, previousSibling, blockNode,
                              offset + Len(TextContent(NodeAt(root, previousSibling))))
       ELSE OffsetInBlock(root, Front(currentNode), blockNode, offset)

getSelectionPoint(root, selectionNode, selectionOffset) ==
  LET blockNode == findAncestorWithOffsetKey(root, selectionNode, HasDataBlock)
  IN  IF blockNode = NoPath THEN NoPoint
      ELSE Point(Decode(getOffsetKeyFromNode(NodeAt(root, blockNode))).blockKey,
                 OffsetInBlock(root, selectionNode, blockNode, selectionOffset))

\* keySeq().skipUntil(v => v === a || v === b).first(): "" for undefined.
FirstOfEither(contentState, a, b) ==
  LET hits == {i \in 1..Len(contentState) :
                 contentState[i].key = a \/ contentState[i].key = b}
  IN  IF hits = {} THEN ""
      ELSE contentState[CHOOSE i \in hits : \A j \in hits : i <= j].key

IsBackward_FirstIsAnchor(anchorPoint, focusPoint, contentState) ==
  \/ /\ anchorPoint.blockKey = focusPoint.blockKey
     /\ anchorPoint.offset > focusPoint.offset
  \/ FirstOfEither(contentState, anchorPoint.blockKey, focusPoint.blockKey)
       = anchorPoint.blockKey

IsBackward(anchorPoint, focusPoint, contentState) ==
  \/ /\ anchorPoint.blockKey = focusPoint.blockKey
     /\ anchorPoint.offset > focusPoint.offset
  \/ FirstOfEither(contentState, anchorPoint.blockKey, focusPoint.blockKey)
       = focusPoint.blockKey

FocusPoint_FirstBlock(root, domSelection, anchorPoint) ==
  LET p == getSelectionPoint(root, domSelection.focusNode, domSelection.focusOffset)
  IN  IF p = NoPoint THEN Point(anchorPoint.blockKey, 0) ELSE p

\* The focus point: the focus node's own point, else the anchor point.
FocusPoint(root, domSelection, anchorPoint) ==
  LET p == getSelectionPoint(root, domSelection.focusNode, domSelection.focusOffset)
  IN  IF p = NoPoint THEN anchorPoint ELSE p

getReconstructedSelection(root, domSelection, contentState) ==
  LET a == getSelectionPoint(root, domSelection.anchorNode, domSelection.anchorOffset)
  IN  \* getFirstBlock() of a document with no block is undefined: getKey() throws
      IF a = NoPoint /\ contentState = <<>>
      THEN [threw |-> TRUE, value |-> createEmpty("")]
      ELSE LET anchorPoint == IF a = NoPoint THEN Point(contentState[1].key, 0) ELSE a
               focusPoint == FocusPoint(root, domSelection, anchorPoint)
           IN  [threw |-> FALSE,
                value |-> SelectionState(anchorPoint.blockKey, anchorPoint.offset,
                                         focusPoint.blockKey, focusPoint.offset,
                                         IsBackward(anchorPoint, focusPoint, contentState),
                                         FALSE)]

\* ---------------------------------- selection reconstruction on its own
\* The documents: any order of blocks b1 and b2, or fewer, or none.
SelBlock(key) == ContentBlock(key, <<"a", "b">>, <<EMPTY, EMPTY>>)
SelContents ==
  {<<>>, <<SelBlock("b1")>>, <<SelBlock("b2")>>,
   <<SelBlock("b1"), SelBlock("b2")>>, <<SelBlock("b2"), SelBlock("b1")>>}
\* What may sit under the container: the block roots of b1 and b2, a block
\* root whose key names no block of the document, a text node in no block.
SelRootShapes ==
  {BlockDiv("b1", <<Span(Encode("b1", 0, 0), <<Text(<<"a", "b">>)>>)>>),
   BlockDiv("b2", <<Span(Encode("b2", 0, 0), <<Text(<<"a">>)>>), Br, Text(<<"b">>)>>),
   BlockDiv("b9", <<Span(Encode("b9", 0, 0), <<Text(<<"a">>)>>)>>),
   Text(<<"b">>)}
\* Where an endpoint of the DOM selection can be: any node, or null.
Endpoints(root) ==
  {Preorder(root, <<>>)[i] : i \in 1..Len(Preorder(root, <<>>))} \cup {NoPath}

SelInit ==
  \E content \in SelContents :
    \E kids \in SeqsUpTo(SelRootShapes, MaxRootKids) :
      \E an, fn \in Endpoints(Container(kids)) :
        \E ao, fo \in 0..MaxDomOffset :
          /\ latest = [e \in Editors |->
                         IF e = "e1" THEN EditorState(content, createEmpty(""))
                         ELSE BlankEditor]
          /\ dom = [e \in Editors |->
                      IF e = "e1" THEN Container(kids) ELSE Render(BlankEditor.content)]
          /\ domSel = [anchorNode |-> an, anchorOffset |-> ao,
                       focusNode |-> fn, focusOffset |-> fo]
          /\ out = NoOut
          /\ mounted = {"e1"}
          /\ mode = [e \in Editors |-> "edit"]
          /\ HandlerIdle

ReconstructSelection ==
  /\ out.op = "none"
  /\ out' = [op |-> "selection",
             res |-> getReconstructedSelection(dom["e1"], domSel, latest["e1"].content)]
  /\ UNCHANGED <<editorVars, handlerVars, traceVars>>

SelNext == ReconstructSelection
SpecSel == SelInit /\ [][SelNext]_vars

\* --------------------------------------- claims on selection reconstruction
SelDone == out.op = "selection"
SelContent == latest["e1"].content
\* Block x comes before block y in the document.
Precedes(content, x, y) ==
  \E i, j \in 1..Len(content) : i < j /\ content[i].key = x /\ content[j].key = y
\* The node is in no block root: no node from it up to the container carries
\* the block attribute.
InNoBlockRoot(root, path) ==
  \/ path = NoPath
  \/ \A n \in 0..Len(path) : ~NodeAt(root, SubSeq(path, 1, n)).block

\* C8 as claimed: with anchor and focus in the same block, isBackward is true
\* exactly when the anchor offset exceeds the focus offset; a collapsed or
\* forward selection reports isBackward = FALSE.
C8_InBlockBackwardIffAnchorAfterFocus ==
  (SelDone /\ ~out.res.threw) =>
    LET sel == out.res.value
    IN  sel.anchorKey = sel.focusKey =>
          (sel.isBackward <=> sel.anchorOffset > sel.focusOffset)

C10_DefaultsWithoutBlockRoot ==
  (SelDone /\ ~out.res.threw) =>
    LET sel == out.res.value
    IN  /\ InNoBlockRoot(dom["e1"], domSel.anchorNode) =>
             /\ SelContent # <<>>
             /\ sel.anchorKey = SelContent[1].key
             /\ sel.anchorOffset = 0
        /\ InNoBlockRoot(dom["e1"], domSel.focusNode) =>
             /\ sel.focusKey = sel.anchorKey
             /\ sel.focusOffset = sel.anchorOffset

\* C10 witness: the anchor in the second block at an offset above 0 and the
\* focus on a node that is in no block root, so that the focus takes a point
\* that is not the default of the anchor.
C10_Witness ==
  /\ SelDone /\ ~out.res.threw
  /\ ~InNoBlockRoot(dom["e1"], domSel.anchorNode)
  /\ InNoBlockRoot(dom["e1"], domSel.focusNode)
  /\ domSel.focusNode # NoPath
  /\ Len(SelContent) = 2
  /\ out.res.value.anchorKey = SelContent[2].key
  /\ out.res.value.anchorOffset > 0

\* ------------------------------------------- the browser during composition
MaxSignals == 4
MaxEdits == 2

Caret(node, offset) ==
  [anchorNode |-> node, anchorOffset |-> offset, focusNode |-> node, focusOffset |-> offset]

RECURSIVE ReplaceAt(_, _, _)
ReplaceAt(root, path, node) ==
  IF path = <<>> THEN node
  ELSE [root EXCEPT !.kids[Head(path)] = ReplaceAt(root.kids[Head(path)], Tail(path), node)]

RemoveKid(node, i) ==
  [node EXCEPT !.kids = SubSeq(node.kids, 1, i - 1) \o SubSeq(node.kids, i + 1, Len(node.kids))]
InsertKid(node, i, kid) ==
  [node EXCEPT !.kids = SubSeq(node.kids, 1, i - 1) \o <<kid>> \o SubSeq(node.kids, i, Len(node.kids))]

TextPaths(root) ==
  LET paths == Preorder(root, <<>>)
  IN  {paths[i] : i \in {j \in 1..Len(paths) : NodeAt(root, paths[j]).tag = "#text"}}

\* The text the input method leaves in a text node: a character more, or the
\* last character taken back.
Retyped(data) ==
  {data \o <<"b">>} \cup (IF Len(data) > 1 THEN {Front(data)} ELSE {})

\* The keys of the document's blocks that have no root node in the DOM.
HasRootFor(root, key) ==
  \E i \in 1..Len(root.kids) :
    root.kids[i].block /\ Decode(root.kids[i].okey).blockKey = key
\* Where the root of block n of the content goes among the roots present.
RootSlot(root, content, n) ==
  1 + Cardinality({m \in 1..(n - 1) : HasRootFor(root, content[m].key)})

\* The observer's MutationObserver queues a record for a change under its
\* container.
Observe(observer, record) == [observer EXCEPT !.pending = Append(@, record)]

\* ------------------------------------------ DraftEditorCompositionHandler
\* The keys pressed: two arrow keys and a character key.
Keys == {"LEFT", "UP", "A"}

\* The outcome of one call of resolveComposition(editor): what it did and the
\* values it leaves in the module's variables and in the editor.
Outcome(ran, threw, observer, isResolved, selAtStart, newMode, editorState, newDom, mutations, pushed, updated) ==
  [ran |-> ran, threw |-> threw, domObserver |-> observer, resolved |-> isResolved,
   selectionAtCompositionStart |-> selAtStart, mode |-> newMode,
   latest |-> editorState, dom |-> newDom,
   mutations |-> mutations, pushed |-> pushed, updated |-> updated]

\* blocks.map(...): null for a block the mutations map to null, the block
\* rebuilt from its node for a block they map to a node, the block itself
\* otherwise. A null is the record [threw |-> FALSE, drop |-> TRUE].
Mapped(block, mutations, root, editorState) ==
  IF block.key \notin DOMAIN mutations
  THEN [threw |-> FALSE, drop |-> FALSE, value |-> block]
  ELSE IF mutations[block.key].isNull
  THEN [threw |-> FALSE, drop |-> TRUE, value |-> block]
  ELSE LET blockNode == mutations[block.key]
           r == IF "detached" \in DOMAIN blockNode
                THEN getReconstructedBlock(block, <<1>>, Container(<<blockNode.detached>>),
                                           editorState)
                ELSE getReconstructedBlock(block, NodePath(root, blockNode),
                                           root, editorState)
       IN  [threw |-> r.threw, drop |-> FALSE, value |-> r.value]

\* .filter(block => !!block)
NewBlocks(mapped) ==
  LET kept == SelectSeq(mapped, LAMBDA m : ~m.drop)
  IN  [i \in 1..Len(kept) |-> kept[i].value]

ChangeType_AlwaysInsert(newBlocks, blocks) == "insert-characters"

ChangeType(newBlocks, blocks) ==
  IF Len(newBlocks) # Len(blocks) THEN "remove-range" ELSE "insert-characters"

\* ContentState.createFromBlockArray(blocks, entityMap)
createFromBlockArray(blocks, entityMap) == [blocks |-> blocks, entityMap |-> entityMap]

\* EditorState.push, then EditorState.forceSelection.
Pushed(editorState, newBlocks, changeType, finalSelection) ==
  [editorState EXCEPT
     !.content = createFromBlockArray(newBlocks, editorState.entityMap).blocks,
     !.entityMap = createFromBlockArray(newBlocks, editorState.entityMap).entityMap,
     !.lastChangeType = changeType,
     !.selectionBefore = editorState.selection,
     !.selectionAfter = finalSelection,
     !.selection = [finalSelection EXCEPT !.hasFocus = TRUE]]

MarkResolved_Skipped(isResolved) == isResolved

\* `resolved = true` after the drain.
MarkResolved(isResolved) == TRUE

Drained_Kept(observer) == observer

\* `domObserver = null` after stopAndFlushMutations: the drained batcher is
\* let go.
Drained(observer) == NoObserver

\* The outcome of a call that returns at once.
Returned(editor) ==
  Outcome(FALSE, "", domObserver, resolved, selectionAtCompositionStart,
          mode[editor], latest[editor], dom[editor], NoMutations, FALSE, FALSE)

\* The window's selection lies in the container of whichever editor the
\* browser last edited; a selection of null nodes lies nowhere.
SelectionRoot(editor) ==
  IF "host" \in DOMAIN domSel THEN dom[domSel.host] ELSE dom[editor]

\* resolveComposition past its first check.
Resolving(editor) ==
  LET idle == Returned(editor)
  IN  \* nullthrows(domObserver)
      IF ~domObserver.exists THEN [idle EXCEPT !.ran = TRUE, !.threw = "observer"]
      ELSE
        LET root == dom[domObserver.container]
            mutations == stopAndFlushMutations(domObserver, root)
            flushed == [idle EXCEPT !.ran = TRUE, !.domObserver = Drained(domObserver),
                                    !.resolved = MarkResolved(resolved),
                                    !.mutations = mutations]
        IN  \* `selectionAtCompositionStart || editorState.getSelection()` reads
            \* editorState inside its own initializer
            IF ~selectionAtCompositionStart.set THEN [flushed EXCEPT !.threw = "editorState"]
            ELSE
              LET editorState ==
                    [latest[editor] EXCEPT !.inCompositionMode = FALSE,
                                           !.selection = selectionAtCompositionStart.value]
                  exited == [flushed EXCEPT
                               !.selectionAtCompositionStart = NoSelectionAtStart,
                               !.mode = "edit"]
              IN  IF DOMAIN mutations = {}
                  THEN [exited EXCEPT !.latest = editorState, !.updated = TRUE]
                  ELSE
                    LET blocks == editorState.content
                        mapped == [i \in 1..Len(blocks) |->
                                     Mapped(blocks[i], mutations, root, editorState)]
                        newBlocks == NewBlocks(mapped)
                        finalSelection ==
                          getReconstructedSelection(SelectionRoot(editor), domSel, newBlocks)
                    IN  IF \E i \in 1..Len(blocks) : mapped[i].threw
                        THEN [exited EXCEPT !.threw = "block"]
                        ELSE IF finalSelection.threw
                        THEN [exited EXCEPT !.threw = "selection"]
                        ELSE [exited EXCEPT
                                !.latest = Pushed(editorState, newBlocks,
                                                  ChangeType(newBlocks, blocks),
                                                  finalSelection.value),
                                \* restoreEditorDOM and the render of the update
                                !.dom = Render(newBlocks),
                                !.pushed = TRUE, !.updated = TRUE]

resolveComposition_Unguarded(editor) == Resolving(editor)

resolveComposition(editor) ==
  IF stillComposing THEN Returned(editor) ELSE Resolving(editor)

\* The outcome's values become the state.
Resolved(editor, r) ==
  /\ domObserver' = r.domObserver
  /\ resolved' = r.resolved
  /\ selectionAtCompositionStart' = r.selectionAtCompositionStart
  /\ mode' = [mode EXCEPT ![editor] = r.mode]
  /\ latest' = [latest EXCEPT ![editor] = r.latest]
  /\ dom' = [dom EXCEPT ![editor] = r.dom]
  /\ domSel' = IF r.pushed THEN NoSelection ELSE domSel
  /\ session' = [session EXCEPT
                   !.resolutions = @ + (IF r.ran /\ r.threw # "observer" THEN 1 ELSE 0),
                   !.pushes = @ + (IF r.pushed THEN 1 ELSE 0)]

NoKeyPressed == [which |-> "", isComposing |-> FALSE]
NotResolving ==
  Outcome(FALSE, "", NoObserver, FALSE, NoSelectionAtStart, "", <<>>, <<>>,
          NoMutations, FALSE, FALSE)

Event(type, editor, key, prevented, scheduled, handedToEdit, r) ==
  [type |-> type, editor |-> editor, wasComposing |-> stillComposing,
   isComposing |-> key.isComposing, which |-> key.which,
   prevented |-> prevented, scheduled |-> scheduled, handedToEdit |-> handedToEdit,
   flushed |-> r.ran /\ r.threw # "observer", threw |-> r.threw,
   pushed |-> r.pushed, updated |-> r.updated, mutations |-> r.mutations,
   before |-> IF r.ran THEN latest[editor].content ELSE <<>>,
   container |-> IF r.ran THEN domObserver.container ELSE ""]

Timer(id, editor, delay) == [id |-> id, editor |-> editor, delay |-> delay]
\* Millisecond delay of the deferred resolution.
RESOLVE_DELAY == 20
setTimeout_Dropped(editor) == timers

\* setTimeout(..., RESOLVE_DELAY): one more deferred resolution, named by the
\* number of the signal that scheduled it. The deferred resolutions run in
\* any order relative to the signals and to each other.
setTimeout(editor) == timers \cup {Timer(used.signals + 1, editor, RESOLVE_DELAY)}

Signalled == [used EXCEPT !.signals = @ + 1]
OpenSession == [NoSession EXCEPT !.open = TRUE]

startDOMObserver_Always(editor) == NewObserver(editor)

\* startDOMObserver(editor): a batcher is created and started only when the
\* module holds none.
startDOMObserver(editor) ==
  IF ~domObserver.exists THEN NewObserver(editor) ELSE domObserver

\* compositionstart. In edit mode the edit handler switches the editor to
\* composite mode, marks the editor state as composing, and hands the event
\* to the composition handler; in composite mode the composition handler
\* receives it.
CompositionStart(e) ==
  /\ e \in mounted
  /\ used.signals < MaxSignals
  /\ mode' = [mode EXCEPT ![e] = "composite"]
  /\ latest' = IF mode[e] = "edit"
               THEN [latest EXCEPT ![e].inCompositionMode = TRUE]
               ELSE latest
  /\ stillComposing' = TRUE
  /\ selectionAtCompositionStart' = SelectionAtStart(latest[e].selection)
  /\ domObserver' = startDOMObserver(e)
  /\ session' = [(IF mode[e] = "edit" THEN OpenSession ELSE session) EXCEPT
                   !.ends = 0, !.captured = latest[e].selection,
                   !.began = IF mode[e] = "edit" THEN latest[e].selection ELSE @,
                   !.editor = e]
  /\ ev' = Event("compositionstart", e, NoKeyPressed, FALSE, FALSE, FALSE, NotResolving)
  /\ used' = Signalled
  /\ UNCHANGED <<mounted, dom, domSel, resolved, timers, out>>

\* onCompositionEnd(editor), on its own variables and the timers.
onCompositionEnd(e) ==
  IF stillComposing
  THEN /\ resolved' = FALSE
       /\ stillComposing' = FALSE
       /\ timers' = setTimeout(e)
  ELSE UNCHANGED <<resolved, stillComposing, timers>>

\* compositionend; only the composition handler has a handler for it.
CompositionEnd(e) ==
  /\ e \in mounted
  /\ mode[e] = "composite"
  /\ used.signals < MaxSignals
  /\ onCompositionEnd(e)
  /\ session' = [session EXCEPT !.ends = @ + 1]
  /\ ev' = Event("compositionend", e, NoKeyPressed, FALSE, stillComposing, FALSE, NotResolving)
  /\ used' = Signalled
  /\ UNCHANGED <<editorVars, domObserver, selectionAtCompositionStart, out>>

\* keydown in composite mode.
KeyDown(e, key) ==
  /\ e \in mounted
  /\ mode[e] = "composite"
  /\ used.signals < MaxSignals
  /\ used' = Signalled
  /\ UNCHANGED <<mounted, out>>
  /\ IF ~stillComposing
     THEN \* resolve now, then the key goes to the edit mode handler, which
          \* leaves a plain key to the browser
          \E r \in {resolveComposition(e)} :
              /\ Resolved(e, r)
              /\ ev' = Event("keydown", e, key, FALSE, FALSE, r.threw = "", r)
              /\ UNCHANGED <<stillComposing, timers>>
     ELSE IF ~key.isComposing
     THEN /\ onCompositionEnd(e)
          /\ ev' = Event("keydown", e, key, TRUE, TRUE, FALSE, NotResolving)
          /\ UNCHANGED <<mode, latest, dom, domSel, domObserver,
                         selectionAtCompositionStart, session>>
     ELSE /\ ev' = Event("keydown", e, key, key.which \in {"LEFT", "RIGHT"},
                         FALSE, FALSE, NotResolving)
          /\ UNCHANGED <<mode, latest, dom, domSel, handlerVars, timers, session>>

TimerResolves_Never(isResolved) == FALSE
TimerResolves_Always(isResolved) == TRUE

\* The callback of a deferred resolution.
TimerResolves(isResolved) == ~isResolved

TimerFire(t) ==
  /\ t \in timers
  /\ timers' = timers \ {t}
  /\ IF TimerResolves(resolved)
     THEN \E r \in {resolveComposition(t.editor)} :
              /\ Resolved(t.editor, r)
              /\ ev' = Event("timer", t.editor, NoKeyPressed, FALSE, FALSE, FALSE, r)
     ELSE /\ ev' = Event("timer", t.editor, NoKeyPressed, FALSE, FALSE, FALSE, NotResolving)
          /\ UNCHANGED <<mode, latest, dom, domSel, resolved, domObserver,
                         selectionAtCompositionStart, session>>
  /\ UNCHANGED <<mounted, stillComposing, used, out>>

\* ------------------------------------- what the browser does to the DOM
\* The browser changes the DOM under the observed container once the records
\* of its last change have been handed over. Each change moves the DOM
\* selection to where it happened.
Edits ==
  /\ domObserver.exists
  /\ domObserver.pending = <<>>
  /\ used.edits < MaxEdits
  /\ used' = [used EXCEPT !.edits = @ + 1]
  /\ UNCHANGED <<mounted, mode, latest, resolved, stillComposing,
                 selectionAtCompositionStart, timers, session, ev, out>>

Edited(root, record, selection) ==
  /\ dom' = [dom EXCEPT ![domObserver.container] = root]
  /\ domObserver' = Observe(domObserver, record)
  /\ domSel' = selection @@ [host |-> domObserver.container]

\* The input method changes the characters of a text node.
TypeText ==
  /\ Edits
  /\ LET root == dom[domObserver.container]
     IN  \E path \in TextPaths(root) : \E data \in Retyped(NodeAt(root, path).data) :
           Edited(ReplaceAt(root, path, Text(data)),
                  MutationRecord("characterData", path, <<>>, <<>>),
                  Caret(path, Len(data)))

\* The browser puts the composed text in a text node of its own at the end
\* of a block, outside every leaf.
InsertAnonymous ==
  /\ Edits
  /\ LET root == dom[domObserver.container]
     IN  \E i \in 1..Len(root.kids) :
           /\ \A k \in 1..Len(root.kids[i].kids) : root.kids[i].kids[k].tag # "#text"
           /\ LET node == Text(<<"b">>)
                  at == Len(root.kids[i].kids) + 1
              IN  Edited(ReplaceAt(root, <<i>>, InsertKid(root.kids[i], at, node)),
                         MutationRecord("childList", <<i>>, <<>>, <<node>>),
                         Caret(<<i, at>>, 1))

\* Composing over a selection of several blocks removes block roots; the
\* selection falls back on the container.
RemoveBlock ==
  /\ Edits
  /\ LET root == dom[domObserver.container]
     IN  \E i \in 1..Len(root.kids) :
           Edited(RemoveKid(root, i),
                  MutationRecord("childList", <<>>, <<root.kids[i]>>, <<>>),
                  Caret(<<>>, i - 1))

\* An undo during the composition brings a removed block root back.
RestoreBlock ==
  /\ Edits
  /\ LET root == dom[domObserver.container]
         content == latest[domObserver.container].content
     IN  \E n \in 1..Len(content) :
           /\ ~HasRootFor(root, content[n].key)
           /\ LET node == RenderBlock(content[n])
                  at == RootSlot(root, content, n)
              IN  Edited(InsertKid(root, at, node),
                         MutationRecord("childList", <<>>, <<>>, <<node>>),
                         Caret(<<at, 1, 1>>, 0))

\* The MutationObserver's callback: registerMutations(records).
DeliverMutations ==
  /\ domObserver.exists
  /\ domObserver.pending # <<>>
  /\ domObserver' =
       [domObserver EXCEPT
          !.mutations = registerMutations(domObserver.mutations, domObserver.pending,
                                          dom[domObserver.container]),
          !.pending = <<>>]
  /\ UNCHANGED <<editorVars, resolved, stillComposing, selectionAtCompositionStart,
                 traceVars, out>>

\* ------------------------------------------------------------ the editor
InitialContent ==
  <<ContentBlock("b1", <<"a", "a">>, <<BOLD, EMPTY>>),
    ContentBlock("b2", <<"a">>, <<LINK>>)>>

Init ==
  /\ mounted = {"e1"}
  /\ mode = [e \in Editors |-> "edit"]
  /\ latest = [e \in Editors |->
                 IF e = "e1" THEN EditorState(InitialContent, createEmpty("b1"))
                 ELSE BlankEditor]
  /\ dom = [e \in Editors |-> Render(latest[e].content)]
  /\ domSel = NoSelection
  /\ out = NoOut
  /\ HandlerIdle

PressedKeys == [which : Keys, isComposing : BOOLEAN]

Next ==
  \/ \E e \in mounted : CompositionStart(e)
  \/ \E e \in mounted : CompositionEnd(e)
  \/ \E e \in mounted : \E key \in PressedKeys : KeyDown(e, key)
  \/ \E t \in timers : TimerFire(t)
  \/ TypeText
  \/ InsertAnonymous
  \/ RemoveBlock
  \/ RestoreBlock
  \/ DeliverMutations

Spec == Init /\ [][Next]_vars

\* ------------------------------------------------ claims on the composition
\* C1: in one composition session, however many times composition-end is
\* signalled with no composition-start in between, and in whatever order the
\* deferred resolutions run, the batcher is flushed at most once and at most
\* one document version is pushed; no later attempt reaches the flush again
\* (none fails on the missing batcher), and once every deferred resolution
\* has run after a composition-end, the flush has happened exactly once.
C1_ResolvesExactlyOnce ==
  /\ session.resolutions <= 1
  /\ session.pushes <= session.resolutions
  /\ ev.threw # "observer"
  /\ (session.open /\ session.ends >= 1 /\ timers = {}) => session.resolutions = 1

\* Composition-end was signalled twice in a row, the one deferred resolution
\* ran, flushed mutations and pushed one version.
C1_Witness ==
  /\ session.ends >= 2
  /\ timers = {}
  /\ ev.type = "timer"
  /\ ev.flushed
  /\ session.resolutions = 1
  /\ session.pushes = 1

\* C2: a deferred resolution that runs while the handler is composing (a
\* composition-start came after the composition-end that scheduled it) does
\* nothing: no flush, no push, the handler still composing, the batcher and
\* its accumulated mutations as they were.
C2_StartCancelsPendingResolution ==
  [][(stillComposing /\ timers' # timers /\ timers' \subseteq timers)
       => /\ UNCHANGED <<domObserver, stillComposing, selectionAtCompositionStart,
                         mode, latest, dom>>
          /\ ~ev'.flushed
          /\ ~ev'.pushed
          /\ ~ev'.updated]_vars

\* A deferred resolution has just run while composing, with mutations
\* accumulated in the batcher.
C2_Witness ==
  /\ ev.type = "timer"
  /\ ev.wasComposing
  /\ stillComposing
  /\ domObserver.exists
  /\ DOMAIN domObserver.mutations # {}
  /\ mode[ev.editor] = "composite"

KeydownNotComposing ==
  ev.type = "keydown" /\ ev.wasComposing /\ ~ev.isComposing

\* C3 as stated: a keydown handled while composing and flagged as not
\* composing resolves the composition within the handling of that keydown.
C3_KeydownResolvesAtOnce ==
  KeydownNotComposing => ev.flushed

\* C3: a keydown handled while composing and flagged as not composing is
\* treated as a composition-end: its default is prevented, the handler stops
\* composing and a deferred resolution is scheduled; nothing is flushed or
\* pushed within the keydown, and the batcher stays until that resolution.
C3_KeydownEndsCompositionDeferred ==
  KeydownNotComposing =>
    /\ ev.prevented
    /\ ~ev.flushed
    /\ ~ev.pushed
    /\ ~stillComposing
    /\ ~resolved
    /\ domObserver.exists
    /\ Timer(used.signals, ev.editor, RESOLVE_DELAY) \in timers

\* Such a keydown was handled with mutations waiting in the batcher.
C3_Witness ==
  /\ KeydownNotComposing
  /\ DOMAIN domObserver.mutations # {}

\* The blocks of the document before the resolution that the flushed
\* mutations map to null.
DroppedBlocks ==
  {i \in 1..Len(ev.before) :
     /\ ev.before[i].key \in DOMAIN ev.mutations
     /\ ev.mutations[ev.before[i].key].isNull}

\* C4: after a resolution that pushed, no block of the pre-composition
\* document mapped to null by the flushed mutations is in the committed
\* document, and the change kind is remove-range if a block was dropped and
\* insert-characters if none was.
C4_NullBlocksDropped ==
  ev.pushed =>
    /\ \A i \in DroppedBlocks : ~HasBlock(latest[ev.editor].content, ev.before[i].key)
    /\ latest[ev.editor].lastChangeType =
         IF DroppedBlocks # {} THEN "remove-range" ELSE "insert-characters"

\* A resolution pushed a document with one block dropped and another rebuilt.
C4_Witness ==
  /\ ev.pushed
  /\ DroppedBlocks # {}
  /\ \E key \in DOMAIN ev.mutations : ~ev.mutations[key].isNull
  /\ Len(latest[ev.editor].content) = Len(ev.before) - 1
  /\ latest[ev.editor].lastChangeType = "remove-range"

\* A resolution has just flushed a batcher that had accumulated nothing.
ResolvedNothing ==
  ev.flushed /\ ev.threw = "" /\ DOMAIN ev.mutations = {}

\* C11: a resolution that finds no accumulated mutations pushes nothing: the
\* document is the one before it, the DOM is not rebuilt, the editor's
\* selection is the selection the editor had at composition-start, the
\* editor state is out of composition mode and the editor is back in edit
\* mode with no batcher left.
C11_NoMutationsNoPush ==
  ResolvedNothing =>
    /\ ~ev.pushed
    /\ session.pushes = 0
    /\ latest[ev.editor].content = ev.before
    /\ latest[ev.editor].selection = session.captured
    /\ ~latest[ev.editor].inCompositionMode
    /\ mode[ev.editor] = "edit"
    /\ ~domObserver.exists
    /\ selectionAtCompositionStart = NoSelectionAtStart

\* Such a resolution in a session that started from a selection left by an
\* earlier push (it has focus and is not the selection of a new editor).
C11_Witness ==
  /\ ResolvedNothing
  /\ session.captured.hasFocus
  /\ latest[ev.editor].selection # createEmpty(session.captured.anchorKey)

\* C13: a composition-start handled while a batcher is running leaves the
\* batcher as it is: the same instance on the same container, with the
\* mutations it has accumulated and the records waiting for it.
C13_SecondStartKeepsBatcher ==
  [][(ev'.type = "compositionstart" /\ used'.signals = used.signals + 1
        /\ domObserver.exists)
       => domObserver' = domObserver]_vars

\* A composition-start has continued a session after its composition-end
\* (the deferred resolution still pending) with mutations in the batcher.
C13_Witness ==
  /\ ev.type = "compositionstart"
  /\ ~ev.wasComposing
  /\ timers # {}
  /\ domObserver.exists
  /\ DOMAIN domObserver.mutations # {}

\* -------------------------------------- DOMObserver, leaf granularity
\* A value of the leaf-granularity map: null or a text.
NullText == [isNull |-> TRUE, text |-> <<>>]
NewText(text) == [isNull |-> FALSE, text |-> text]

\* addMutation(offsetKey, text) of the leaf-granularity observer.
addLeafMutation(mutations, offsetKey, text) == (offsetKey :> text) @@ mutations

\* The addMutation calls of one registerMutation, in order, as pairs
\* <<offsetKey, value>>.
RemovedBlockCalls(removedNodes) ==
  LET blocks == SelectSeq(removedNodes,
                          LAMBDA node : node.tag # "#text" /\ node.block
                                        /\ findAncestorOffsetKey(node) # NoKey)
  IN  [i \in 1..Len(blocks) |-> <<findAncestorOffsetKey(blocks[i]), NullText>>]

RemovedLeafNodes_None(removedNodes) == <<>>

RemovedLeafNodes(removedNodes) ==
  SelectSeq(removedNodes, LAMBDA node : getOffsetKeyFromNode(node) # NoKey)

LeafMutationCalls(mutation, root) ==
  LET ancestorWithOffsetKey == findAncestorWithOffsetKey(root, mutation.target, AnyNode)
      textContent == TextContent(NodeAt(root, mutation.target))
  IN  IF ancestorWithOffsetKey = NoPath
      THEN IF mutation.type = "childList" THEN RemovedBlockCalls(mutation.removedNodes)
           ELSE <<>>
      ELSE
        LET offsetKey == getOffsetKeyFromNode(NodeAt(root, ancestorWithOffsetKey))
            removedLeafNodes == RemovedLeafNodes(mutation.removedNodes)
        IN  IF mutation.type = "characterData"
            THEN IF textContent # <<>> THEN <<<<offsetKey, NewText(textContent)>>>> ELSE <<>>
            ELSE IF mutation.removedNodes # <<>>
            THEN IF removedLeafNodes # <<>>
                 THEN [i \in 1..Len(removedLeafNodes) |->
                         <<getOffsetKeyFromNode(removedLeafNodes[i]), NewText(<<>>)>>]
                 ELSE <<<<offsetKey, NewText(<<>>)>>>>
            ELSE IF textContent # <<>> THEN <<<<offsetKey, NewText(textContent)>>>>
            ELSE <<>>

RECURSIVE addLeafMutations(_, _)
addLeafMutations(mutations, calls) ==
  IF calls = <<>> THEN mutations
  ELSE addLeafMutations(addLeafMutation(mutations, Head(calls)[1], Head(calls)[2]),
                        Tail(calls))

registerLeafMutation(mutations, mutation, root) ==
  addLeafMutations(mutations, LeafMutationCalls(mutation, root))

RECURSIVE registerLeafMutations(_, _, _)
registerLeafMutations(mutations, records, root) ==
  IF records = <<>> THEN mutations
  ELSE registerLeafMutations(registerLeafMutation(mutations, Head(records), root),
                             Tail(records), root)

\* What stopAndFlushMutations returns, for either granularity.
Granularities == {"leaf", "block"}
FlushedMutations(granularity, observer, root) ==
  IF granularity = "leaf"
  THEN registerLeafMutations(observer.mutations, observer.pending, root)
  ELSE stopAndFlushMutations(observer, root)

Disconnected_Kept(observing) == observing

\* observer.disconnect(): the MutationObserver queues no record any more.
Disconnected(observing) == FALSE

Flushed_KeepingMap(observer) == [observer EXCEPT !.pending = <<>>]

\* The observer after stopAndFlushMutations: the records taken, the
\* accumulator a new empty map.
Flushed(observer) == [observer EXCEPT !.mutations = NoMutations, !.pending = <<>>]

\* ----------------------------------------------- the DOMObserver on its own
MaxObsSteps == 4

\* The container as rendered, and the container after the browser has merged
\* a leaf of block b2 into block b1.
MergedDom ==
  LET root == Render(InitialContent)
  IN  ReplaceAt(root, <<1>>,
                InsertKid(root.kids[1], Len(root.kids[1].kids) + 1,
                          Span(Encode("b2", 0, 0), <<Text(<<"a">>)>>)))
ObsDoms == {Render(InitialContent), MergedDom}

\* A DOMObserver of either granularity, constructed on the container of e1
\* and started.
ObsInit ==
  /\ mounted = {"e1"}
  /\ mode = [e \in Editors |-> "edit"]
  /\ latest = [e \in Editors |->
                 IF e = "e1" THEN EditorState(InitialContent, createEmpty("b1"))
                 ELSE BlankEditor]
  /\ \E root \in ObsDoms :
       dom = [e \in Editors |-> IF e = "e1" THEN root ELSE Render(BlankEditor.content)]
  /\ domSel = NoSelection
  /\ HandlerIdle
  /\ \E granularity \in Granularities :
       out = [op |-> "observer", granularity |-> granularity, observing |-> TRUE,
              observer |-> NewObserver("e1"), returned |-> <<>>, log |-> <<>>,
              last |-> "start", flushesInRow |-> 0, steps |-> 0, stopped |-> FALSE]

ObsStep ==
  /\ out.op = "observer"
  /\ out.steps < MaxObsSteps
  /\ UNCHANGED <<mounted, mode, latest, domSel, handlerVars, traceVars>>

\* The browser's change of the DOM, with the record the observer's
\* MutationObserver queues for it while it observes.
ObsChanged(root, record) ==
  /\ dom' = [dom EXCEPT !["e1"] = root]
  /\ out' = [out EXCEPT
               !.observer = IF out.observing THEN Observe(@, record) ELSE @,
               !.last = "change",
               !.flushesInRow = IF out.observing THEN 0 ELSE @,
               !.steps = @ + 1]

ObsChangeText ==
  /\ ObsStep
  /\ \E path \in TextPaths(dom["e1"]) : \E data \in Retyped(NodeAt(dom["e1"], path).data) :
       ObsChanged(ReplaceAt(dom["e1"], path, Text(data)),
                  MutationRecord("characterData", path, <<>>, <<>>))

\* A node is removed from its parent: a text node, a leaf, a block root.
ObsRemoveNode ==
  /\ ObsStep
  /\ out.observer.pending = <<>>
  /\ \E paths \in {Preorder(dom["e1"], <<>>)} :
       \E n \in 2..Len(paths) :
         LET root == dom["e1"]
             path == paths[n]
             parent == Front(path)
         IN  ObsChanged(ReplaceAt(root, parent, RemoveKid(NodeAt(root, parent), Last(path))),
                        MutationRecord("childList", parent, <<NodeAt(root, path)>>, <<>>))

\* A block root of the document that is not in the container is put there.
ObsAddBlock ==
  /\ ObsStep
  /\ out.observer.pending = <<>>
  /\ LET root == dom["e1"]
         content == latest["e1"].content
     IN  \E n \in 1..Len(content) :
           /\ ~HasRootFor(root, content[n].key)
           /\ LET node == RenderBlock(content[n])
              IN  ObsChanged(InsertKid(root, RootSlot(root, content, n), node),
                             MutationRecord("childList", <<>>, <<>>, <<node>>))

\* The entries one record asks the block-granularity observer to set, in
\* order, as pairs <<blockKey, value>>: null for each removed block root and
\* the node for each added one when the target has no addressed ancestor,
\* the enclosing block root otherwise.
BlockRootsOf(nodes) ==
  SelectSeq(nodes, LAMBDA node : node.tag # "#text" /\ node.block
                                 /\ findAncestorOffsetKey(node) # NoKey)
BlockMutationCalls(mutation, root) ==
  LET ancestorWithOffsetKey == findAncestorWithOffsetKey(root, mutation.target, AnyNode)
      removed == BlockRootsOf(mutation.removedNodes)
      added == BlockRootsOf(mutation.addedNodes)
      keyOf(node) == Decode(findAncestorOffsetKey(node)).blockKey
  IN  IF ancestorWithOffsetKey = NoPath
      THEN IF mutation.type # "childList" THEN <<>>
           ELSE [i \in 1..Len(removed) |-> <<keyOf(removed[i]), NullNode>>]
                  \o [i \in 1..Len(added) |-> <<keyOf(added[i]), NodeRef(keyOf(added[i]))>>]
      ELSE LET blockNode == findAncestorWithOffsetKey(root, ancestorWithOffsetKey, HasDataBlock)
               blockKey == Decode(getOffsetKeyFromNode(NodeAt(root, blockNode))).blockKey
           IN  IF blockNode = NoPath THEN <<>>
               ELSE <<<<blockKey, NodeRef(blockKey)>>>>

\* The entries the queued records ask for, in the order of the records.
CallsOf(granularity, records, root) ==
  Flatten([i \in 1..Len(records) |->
             IF granularity = "leaf" THEN LeafMutationCalls(records[i], root)
             ELSE BlockMutationCalls(records[i], root)])

\* The MutationObserver's callback: registerMutations(records).
ObsDeliver ==
  /\ ObsStep
  /\ out.observer.pending # <<>>
  /\ out' = [out EXCEPT
               !.observer =
                 [@ EXCEPT
                    !.mutations =
                      IF out.granularity = "leaf"
                      THEN registerLeafMutations(@, out.observer.pending, dom["e1"])
                      ELSE registerMutations(@, out.observer.pending, dom["e1"]),
                    !.pending = <<>>],
               !.log = @ \o CallsOf(out.granularity, out.observer.pending, dom["e1"]),
               !.last = "deliver", !.steps = @ + 1]
  /\ UNCHANGED dom

\* stopAndFlushMutations()
ObsFlush ==
  /\ ObsStep
  /\ out' = [out EXCEPT
               !.returned = Append(@, [mutations |->
                                         FlushedMutations(out.granularity, out.observer, dom["e1"]),
                                       log |-> out.log \o CallsOf(out.granularity,
                                                                  out.observer.pending,
                                                                  dom["e1"])]),
               !.observer = Flushed(@),
               !.observing = Disconnected(@),
               !.stopped = TRUE,
               !.log = <<>>,
               !.last = "flush", !.flushesInRow = @ + 1, !.steps = @ + 1]
  /\ UNCHANGED dom

\* start()
ObsStart ==
  /\ ObsStep
  /\ out' = [out EXCEPT !.observing = TRUE, !.stopped = FALSE,
                        !.last = "start", !.steps = @ + 1]
  /\ UNCHANGED dom

ObsNext ==
  \/ ObsChangeText
  \/ ObsRemoveNode
  \/ ObsAddBlock
  \/ ObsDeliver
  \/ ObsFlush
  \/ ObsStart

SpecObs == ObsInit /\ [][ObsNext]_vars

\* --------------------------------------------- claims on the DOMObserver
ObsRunning == out.op = "observer"

\* The mapping a sequence of requested entries amounts to when the latest
\* request for an address wins.
LatestWins(log, mutations) ==
  /\ DOMAIN mutations = {log[i][1] : i \in 1..Len(log)}
  /\ \A i \in 1..Len(log) :
       (\A j \in (i + 1)..Len(log) : log[j][1] # log[i][1])
         => mutations[log[i][1]] = log[i][2]

\* C12: stopAndFlushMutations returns what was accumulated since the start
\* or the flush before (the entries registered and those of the records
\* still queued), once: after any call the accumulator is empty and no
\* record is queued, and a call following another with no notification in
\* between returns an empty mapping.
C12_FlushReturnsOnce ==
  ObsRunning =>
    /\ out.last = "flush" =>
         /\ out.observer.mutations = NoMutations
         /\ out.observer.pending = <<>>
    /\ out.flushesInRow >= 2 => DOMAIN Last(out.returned).mutations = {}
    /\ \A i \in 1..Len(out.returned) :
         LatestWins(out.returned[i].log, out.returned[i].mutations)

\* Two flushes in a row, the first returning entries registered before it
\* and entries of records it took from the queue.
C12_Witness ==
  /\ ObsRunning
  /\ out.flushesInRow = 2
  /\ Len(out.returned) = 2
  /\ Cardinality(DOMAIN out.returned[1].mutations) >= 2
  /\ out.last = "flush"

\* C14: the accumulator holds one entry for each address an entry was
\* requested for, with the value of the latest request, and nothing else,
\* in both granularities.
C14_LatestNotificationWins ==
  ObsRunning => LatestWins(out.log, out.observer.mutations)

\* An address was notified twice with different values.
C14_Witness ==
  /\ ObsRunning
  /\ \E i, j \in 1..Len(out.log) :
       /\ i < j
       /\ out.log[i][1] = out.log[j][1]
       /\ out.log[i][2] # out.log[j][2]
       /\ \A k \in (j + 1)..Len(out.log) : out.log[k][1] # out.log[j][1]

\* The nearest block-root node at or above a node of the container, NoPath
\* when the node is in no block.
EnclosingBlockRoot(root, path) ==
  LET roots == {n \in 0..Len(path) :
                  LET node == NodeAt(root, SubSeq(path, 1, n))
                  IN  node.tag # "#text" /\ node.block}
  IN  IF roots = {} THEN NoPath
      ELSE SubSeq(path, 1, CHOOSE n \in roots : \A m \in roots : m <= n)

BlockKeyOf(node) == Decode(node.okey).blockKey
BlockRootKeys(nodes) ==
  {BlockKeyOf(nodes[i]) : i \in {j \in 1..Len(nodes) : nodes[j].tag # "#text" /\ nodes[j].block}}

\* What one queued record makes the block-granularity observer record.
RecordedFor(record) == registerMutation(NoMutations, record, dom["e1"])

\* C15: in block granularity every entry is keyed by a block key; a change
\* inside a block is recorded under the key of the nearest enclosing block
\* root with that node as value, whatever key the changed leaf carries; a
\* child-list change with no addressed ancestor records null for the removed
\* block roots and the node for the added ones; and once all records are
\* registered a block is mapped to null exactly when its root is gone, so a
\* block removed and put back is mapped to its node.
C15_BlockEntriesKeyedByBlockRoot ==
  (ObsRunning /\ out.granularity = "block") =>
    LET root == dom["e1"]
        mutations == out.observer.mutations
        pending == out.observer.pending
    IN  /\ \A key \in DOMAIN mutations :
             /\ key \in {latest["e1"].content[n].key : n \in 1..Len(latest["e1"].content)}
             /\ mutations[key] \in {NullNode, NodeRef(key)}
        /\ \A i \in 1..Len(pending) :
             LET enclosing == EnclosingBlockRoot(root, pending[i].target)
                 key == BlockKeyOf(NodeAt(root, enclosing))
                 removed == BlockRootKeys(pending[i].removedNodes)
                 added == BlockRootKeys(pending[i].addedNodes)
             IN  IF enclosing # NoPath
                 THEN RecordedFor(pending[i]) = (key :> NodeRef(key))
                 ELSE (pending[i].type = "childList"
                       /\ findAncestorWithOffsetKey(root, pending[i].target, AnyNode) = NoPath)
                        => /\ DOMAIN RecordedFor(pending[i]) = removed \cup added
                           /\ \A k \in removed \cup added :
                                RecordedFor(pending[i])[k] =
                                  IF k \in added THEN NodeRef(k) ELSE NullNode
        /\ (out.returned = <<>> /\ pending = <<>>) =>
             \A key \in DOMAIN mutations :
               mutations[key].isNull <=> ~HasRootFor(root, key)

\* A record is queued for a change of the text of a leaf that carries the
\* key of block b2 and sits inside the root of block b1.
C15_Witness ==
  /\ ObsRunning /\ out.granularity = "block"
  /\ \E i \in 1..Len(out.observer.pending) :
       LET target == out.observer.pending[i].target
           leaf == findAncestorWithOffsetKey(dom["e1"], target, AnyNode)
       IN  /\ out.observer.pending[i].type = "characterData"
           /\ BlockKeyOf(NodeAt(dom["e1"], leaf)) = "b2"
           /\ BlockKeyOf(NodeAt(dom["e1"], EnclosingBlockRoot(dom["e1"], target))) = "b1"

\* A block root was removed and put back, and the block is mapped to its node.
C15_ReAdded ==
  /\ ObsRunning /\ out.granularity = "block"
  /\ \E i, j \in 1..Len(out.log) :
       /\ i < j /\ out.log[i][1] = out.log[j][1]
       /\ out.log[i][2] = NullNode /\ out.log[j][2] # NullNode
  /\ out.observer.pending = <<>>

\* What one queued record makes the leaf-granularity observer record.
LeafRecordedFor(record) == registerLeafMutation(NoMutations, record, dom["e1"])

\* Whether the target of a queued record has an addressed node at or above it.
Addressed(record) ==
  findAncestorWithOffsetKey(dom["e1"], record.target, AnyNode) # NoPath
AddressOf(record) ==
  getOffsetKeyFromNode(
    NodeAt(dom["e1"], findAncestorWithOffsetKey(dom["e1"], record.target, AnyNode)))

\* The queued child-list records with a removed node that carries an offset
\* key, as pairs <<record, removed node>>.
RemovedKeyed ==
  UNION {{<<out.observer.pending[i], out.observer.pending[i].removedNodes[j]>> :
            j \in {m \in 1..Len(out.observer.pending[i].removedNodes) :
                     getOffsetKeyFromNode(out.observer.pending[i].removedNodes[m]) # NoKey}} :
         i \in {n \in 1..Len(out.observer.pending) :
                  out.observer.pending[n].type = "childList"}}

LeafRunning == ObsRunning /\ out.granularity = "leaf"

\* C16 as stated: in leaf granularity the removal of a node carrying an
\* offset key records null under that node's key.
C16_RemovedLeafRecordsNull ==
  LeafRunning =>
    \A removal \in RemovedKeyed :
      /\ getOffsetKeyFromNode(removal[2]) \in DOMAIN LeafRecordedFor(removal[1])
      /\ LeafRecordedFor(removal[1])[getOffsetKeyFromNode(removal[2])] = NullText

\* C16, amended: in leaf granularity a node carrying an offset key removed
\* from inside an addressed node records the empty text under that node's
\* key; null is recorded only for a block root removed where the target has
\* no addressed ancestor, under the key found for that root; the removal of
\* unkeyed nodes records the empty text under the target's address, and a
\* text change records the text of the changed node under it.
C16_RemovedLeafRecordsEmptyText ==
  LeafRunning =>
    /\ \A removal \in RemovedKeyed :
         LET key == getOffsetKeyFromNode(removal[2])
             recorded == LeafRecordedFor(removal[1])
         IN  /\ key \in DOMAIN recorded
             /\ recorded[key] = IF Addressed(removal[1]) THEN NewText(<<>>) ELSE NullText
             /\ ~Addressed(removal[1]) => removal[2].block
    /\ \A i \in 1..Len(out.observer.pending) :
         LET record == out.observer.pending[i]
             recorded == LeafRecordedFor(record)
             text == TextContent(NodeAt(dom["e1"], record.target))
         IN  /\ \A key \in DOMAIN recorded :
                  recorded[key].isNull =>
                    /\ ~Addressed(record)
                    /\ \E removal \in RemovedKeyed :
                         /\ removal[1] = record
                         /\ getOffsetKeyFromNode(removal[2]) = key
             /\ (record.type = "characterData" /\ text # <<>>) =>
                  recorded = (AddressOf(record) :> NewText(text))
             /\ (record.type = "childList" /\ Addressed(record)
                 /\ record.removedNodes # <<>>
                 /\ \A removal \in RemovedKeyed : removal[1] # record) =>
                  recorded = (AddressOf(record) :> NewText(<<>>))

\* A record is queued for a leaf removed from its block root, the leaf's key
\* not the block root's own.
C16_Witness ==
  /\ LeafRunning
  /\ \E removal \in RemovedKeyed :
       /\ Addressed(removal[1])
       /\ removal[2].tag = "span"
       /\ getOffsetKeyFromNode(removal[2]) # AddressOf(removal[1])

\* ------------------------------------------------------------ editOnInput
\* The collaborators of editOnInput that the editor state and the content
\* state provide.
\* block.getEntityAt(offset), block.getInlineStyleAt(offset)
getEntityAt(block, offset) ==
  IF HasCharAt(block, offset) THEN CharAt(block, offset).entity ELSE NoEntity
getInlineStyleAt(block, offset) ==
  IF HasCharAt(block, offset) THEN CharAt(block, offset).style ELSE {}

\* notEmptyKey(entityKey)
notEmptyKey(entityKey) == entityKey # NoEntity

\* Array.prototype.slice and String.prototype.slice on a sequence, with the
\* end points clamped as slice clamps them.
Clamp(n, len) == IF n < 0 THEN 0 ELSE IF n > len THEN len ELSE n
Slice(seq, from, to) == SubSeq(seq, Clamp(from, Len(seq)) + 1, Clamp(to, Len(seq)))

\* DraftModifier.replaceText for a range inside one block: the characters
\* of [start, end) of the block the range names give way to the text, each
\* new character with the given style and entity; every other block stays.
replaceText(content, rangeToReplace, text, inlineStyle, entityKey) ==
  LET start == rangeToReplace.anchorOffset
      end == rangeToReplace.focusOffset
      character == [style |-> inlineStyle, entity |-> entityKey]
  IN  [i \in 1..Len(content) |->
         IF content[i].key # rangeToReplace.anchorKey THEN content[i]
         ELSE LET block == content[i]
                  n == Len(block.text)
              IN  [block EXCEPT
                     !.text = Slice(@, 0, start) \o text \o Slice(@, end, n),
                     !.characterList =
                       Slice(@, 0, start) \o [k \in 1..Len(text) |-> character]
                         \o Slice(@, end, n)]]

\* selection.getStartOffset(), selection.getEndOffset()
getStartOffset(selection) ==
  IF selection.isBackward THEN selection.focusOffset ELSE selection.anchorOffset
getEndOffset(selection) ==
  IF selection.isBackward THEN selection.anchorOffset ELSE selection.focusOffset

\* EditorState.push(editorState, content, changeType): the content's
\* selectionAfter becomes the selection.
push(editorState, content, selectionBefore, selectionAfter, changeType) ==
  [editorState EXCEPT
     !.content = content,
     !.lastChangeType = changeType,
     !.selectionBefore = selectionBefore,
     !.selectionAfter = selectionAfter,
     !.selection = selectionAfter]

\* keyCommandPlainBackspace for a selection inside one block: a range is
\* removed; a caret removes the character before it, or joins the block to
\* the one before when it is at the block's start; at the start of the
\* document nothing changes and the same editor state is returned.
keyCommandPlainBackspace(editorState) ==
  LET selection == editorState.selection
      content == editorState.content
      key == selection.anchorKey
      at == CHOOSE i \in 1..Len(content) : content[i].key = key
      from == getStartOffset(selection)
      to == getEndOffset(selection)
      caret(k, offset) == SelectionState(k, offset, k, offset, FALSE, selection.hasFocus)
      cut(a, b) == [i \in 1..Len(content) |->
                      IF i # at THEN content[i]
                      ELSE [content[i] EXCEPT
                              !.text = Slice(@, 0, a) \o Slice(@, b, Len(@)),
                              !.characterList = Slice(@, 0, a) \o Slice(@, b, Len(@))]]
  IN  IF from # to
      THEN push(editorState, cut(from, to), selection, caret(key, from), "remove-range")
      ELSE IF from > 0
      THEN push(editorState, cut(from - 1, from), selection, caret(key, from - 1),
                "backspace-character")
      ELSE IF at = 1 THEN editorState
      ELSE LET before == content[at - 1]
               joined == [before EXCEPT
                            !.text = @ \o content[at].text,
                            !.characterList = @ \o content[at].characterList]
           IN  push(editorState,
                    SubSeq(content, 1, at - 2) \o <<joined>>
                      \o SubSeq(content, at + 1, Len(content)),
                    selection, caret(before.key, Len(before.text)), "remove-range")

onInputType_Ignoring(inputType, editorState) == editorState

\* onInputType(inputType, editorState)
onInputType(inputType, editorState) ==
  IF inputType = "deleteContentBackward" THEN keyCommandPlainBackspace(editorState)
  ELSE editorState

\* Selection.isCollapsed of the DOM selection.
isCollapsed(domSelection) ==
  /\ domSelection.anchorNode = domSelection.focusNode
  /\ domSelection.anchorOffset = domSelection.focusOffset

\* findAncestorOffsetKey(node) for a node of the container: the first key
\* getSelectionOffsetKeyForNode finds, from the node up to the container.
findAncestorOffsetKeyFrom(root, path) ==
  LET hits == {n \in 0..Len(path) :
                 getSelectionOffsetKeyForNode(NodeAt(root, SubSeq(path, 1, n))) # NoKey}
  IN  IF hits = {} THEN NoKey
      ELSE getSelectionOffsetKeyForNode(
             NodeAt(root, SubSeq(path, 1, CHOOSE n \in hits : \A m \in hits : m <= n)))

\* The text of the nodes of a leaf span that come before the node at `path`
\* in the span: what the walk over the previous siblings adds up.
TextBefore(root, span, path) ==
  LET paths == Preorder(root, span)
      at == CHOOSE i \in 1..Len(paths) : paths[i] = path
  IN  Flatten([i \in 1..(at - 1) |->
                 IF NodeAt(root, paths[i]).tag = "#text" THEN NodeAt(root, paths[i]).data
                 ELSE <<>>])

\* reconcileTextNodesAtSelection(editor). The first text child of a rendered
\* leaf span is the text of its data-text node, which has no sibling of its
\* own; the other children of the span are anonymous nodes. With the caret in
\* an anonymous text node, the children of the leaf span are merged into the
\* data-text node and the caret is put at the same place in the merged text.
reconcileTextNodesAtSelection(root, domSelection) ==
  LET anchorNode == domSelection.anchorNode
      same == [threw |-> FALSE, dom |-> root, domSel |-> domSelection]
      span == findAncestorWithOffsetKey(root, anchorNode, AnyNode)
  IN  IF anchorNode = NoPath \/ ~isCollapsed(domSelection) THEN same
      ELSE IF ~(/\ NodeAt(root, anchorNode).tag = "#text"
                /\ Len(NodeAt(root, Front(anchorNode)).kids) > 1
                /\ ~(Front(anchorNode) = span /\ Last(anchorNode) = 1))
      THEN same
      ELSE IF span = NoPath \/ NodeAt(root, span).tag # "span" THEN same
      ELSE LET newAnchorOffset ==
                 domSelection.anchorOffset + Len(TextBefore(root, span, anchorNode))
               text == TextContent(NodeAt(root, span))
           IN  IF text = <<>>
               THEN [threw |-> TRUE, dom |-> ReplaceAt(root, span, Span(NodeAt(root, span).okey, <<>>)),
                     domSel |-> NoSelection]
               ELSE [threw |-> FALSE,
                     dom |-> ReplaceAt(root, span, Span(NodeAt(root, span).okey, <<Text(text)>>)),
                     domSel |-> Caret(span \o <<1>>, newAnchorOffset)]

\* What one call of editOnInput did: the calls it made on the editor, in
\* order, and the editor state, the DOM and the DOM selection it leaves.
InputOutcome(threw, calls, editorState, root, domSelection) ==
  [threw |-> threw, calls |-> calls, latest |-> editorState, dom |-> root,
   domSel |-> domSelection]

\* The new selection offsets, <<anchorOffset, focusOffset>>.
NewOffsets_TrustingDom(isGecko, domSelection, selection, start, domText, modelText) ==
  LET startOffset ==
        start + (IF domSelection.anchorOffset < domSelection.focusOffset
                 THEN domSelection.anchorOffset ELSE domSelection.focusOffset)
  IN  <<startOffset,
        startOffset + (IF domSelection.anchorOffset < domSelection.focusOffset
                       THEN domSelection.focusOffset - domSelection.anchorOffset
                       ELSE domSelection.anchorOffset - domSelection.focusOffset)>>

NewOffsets(isGecko, domSelection, selection, start, domText, modelText) ==
  IF isGecko
  THEN LET startOffset ==
             start + (IF domSelection.anchorOffset < domSelection.focusOffset
                      THEN domSelection.anchorOffset ELSE domSelection.focusOffset)
       IN  <<startOffset,
             startOffset + (IF domSelection.anchorOffset < domSelection.focusOffset
                            THEN domSelection.focusOffset - domSelection.anchorOffset
                            ELSE domSelection.anchorOffset - domSelection.focusOffset)>>
  ELSE LET charDelta == Len(domText) - Len(modelText)
           startOffset == getStartOffset(selection)
           endOffset == getEndOffset(selection)
       IN  <<IF isCollapsed(domSelection) THEN endOffset + charDelta ELSE startOffset,
             endOffset + charDelta>>

PreserveEntity_Always(entityKey, entities) == TRUE

\* preserveEntity: the entity at the leaf's start is of the MUTABLE kind.
PreserveEntity(entityKey, entities) ==
  notEmptyKey(entityKey) /\ entities[entityKey] = "MUTABLE"

\* selection.merge({anchorOffset: start, focusOffset: end, isBackward: false})
TargetRange(selection, start, end) ==
  [selection EXCEPT !.anchorOffset = start, !.focusOffset = end, !.isBackward = FALSE]

\* editOnInput past the no-change check: the leaf is replaced by the DOM text.
Reconciled(editorState, calls, root, domSelection, isGecko, entities, blockKey, start, end, domText) ==
  LET content == editorState.content
      block == BlockForKey(content, blockKey)
      modelText == Slice(block.text, start, end)
      selection == editorState.selection
      targetRange == TargetRange(selection, start, end)
      entityKey == getEntityAt(block, start)
      preserveEntity == PreserveEntity(entityKey, entities)
      changeType == IF preserveEntity THEN "spellcheck-change" ELSE "apply-entity"
      newContent == replaceText(content, targetRange, domText,
                                getInlineStyleAt(block, start),
                                IF preserveEntity THEN getEntityAt(block, start)
                                ELSE NoEntity)
      offsets == NewOffsets(isGecko, domSelection, selection, start, domText, modelText)
      selectionAfter == [selection EXCEPT !.anchorOffset = offsets[1],
                                          !.focusOffset = offsets[2]]
  IN  InputOutcome(FALSE, Append(calls, "update"),
                   push(editorState, newContent, editorState.selectionAfter,
                        selectionAfter, changeType),
                   root, domSelection)

\* editOnInput(editor, e)
editOnInput(editorState, pending, root, selection, isGecko, inputType, entities) ==
  LET calls == IF pending.set THEN <<"update">> ELSE <<>>
      latestState == IF pending.set THEN pending.state ELSE editorState
      merged == reconcileTextNodesAtSelection(root, selection)
      domSelection == merged.domSel
      anchorNode == domSelection.anchorNode
      offsetKey == findAncestorOffsetKeyFrom(merged.dom, anchorNode)
      blockKey == Decode(offsetKey).blockKey
      leafKey == Decode(offsetKey).leafKey
      hasBlock == \E i \in 1..Len(latestState.content) : latestState.content[i].key = blockKey
      leaves == getBlockTree(latestState, blockKey)[1].leaves
      start == leaves[leafKey + 1].start
      end == leaves[leafKey + 1].end
      text == TextContent(NodeAt(merged.dom, anchorNode))
      domText == IF Len(text) >= 2 /\ SubSeq(text, Len(text) - 1, Len(text)) = <<NL, NL>>
                 THEN Front(text) ELSE text
      modelText == Slice(BlockForKey(latestState.content, blockKey).text, start, end)
      newEditorState == onInputType(inputType, latestState)
      stopped == InputOutcome(FALSE, calls, latestState, merged.dom, domSelection)
      failed == InputOutcome(TRUE, calls, latestState, merged.dom, domSelection)
  IN  IF merged.threw THEN failed
      ELSE IF anchorNode = NoPath THEN stopped
      ELSE IF offsetKey = NoKey THEN failed
      ELSE IF ~hasBlock \/ Decode(offsetKey).decoratorKey # 0 \/ leafKey + 1 > Len(leaves)
      THEN failed
      ELSE IF domText = modelText
      THEN IF inputType # "" /\ newEditorState # latestState
           THEN InputOutcome(FALSE, calls \o <<"restoreEditorDOM", "update">>,
                             newEditorState, Render(newEditorState.content), domSelection)
           ELSE stopped
      ELSE Reconciled(latestState, calls, merged.dom, domSelection, isGecko, entities,
                      blockKey, start, end, domText)

\* ------------------------------------------------- editOnInput on its own
\* The document of the input event: a block with a bold leaf and a leaf
\* that carries entity e1, and a second, plain block.
InputContent ==
  <<ContentBlock("b1", <<"a", "a">>, <<BOLD, LINK>>),
    ContentBlock("b2", <<"a">>, <<EMPTY>>)>>
Mutabilities == {"MUTABLE", "IMMUTABLE", "SEGMENTED"}
InputTypes == {"", "deleteContentBackward", "insertText"}

\* The logical selections inside one block of a document.
SelectionsIn(content) ==
  UNION {{SelectionState(content[i].key, a, content[i].key, f, a > f, TRUE) :
            a \in 0..Len(content[i].text), f \in 0..Len(content[i].text)} :
         i \in 1..Len(content)}

\* What the browser may have made of the text of a leaf: nothing, a
\* character more, a character less, or the text with the soft newline the
\* leaf renders doubled.
DomTexts(text) ==
  {text, text \o <<"b">>, Front(text), text \o <<NL, NL>>}

\* The container after the browser's change: the text node of one leaf
\* changed, or an anonymous text node put after it in the leaf span, or
\* every block root taken out of the container.
ChangedDoms(root) ==
  LET spans == {path \in {<<i, j>> : i \in 1..MaxRootKids, j \in 1..MaxKids} :
                  IsPath(root, path) /\ NodeAt(root, path).tag = "span"}
  IN  UNION {{[root |-> ReplaceAt(root, span \o <<1>>, Text(text)), leaf |-> span] :
                text \in DomTexts(NodeAt(root, span \o <<1>>).data)}
             \cup {[root |-> ReplaceAt(root, span,
                                       InsertKid(NodeAt(root, span), 2, Text(<<"b">>))),
                    leaf |-> span]} :
             span \in spans}
    \cup {[root |-> Container(<<>>), leaf |-> <<>>]}

\* The nodes the DOM selection may be anchored in after the change: none,
\* the container, the leaf span, and the text nodes of the leaf.
AnchorsOf(changed) ==
  {NoPath, <<>>, changed.leaf}
    \cup {changed.leaf \o <<k>> : k \in 1..Len(NodeAt(changed.root, changed.leaf).kids)}

\* The offsets of the DOM selection in its anchor node; without a node in
\* a leaf they play no part.
OffsetsIn(anchorNode) ==
  IF anchorNode = NoPath \/ anchorNode = <<>> THEN {0} ELSE 0..MaxDomOffset
\* A pending state of the before-input handler stands for a typed
\* character: the input event then reports no deletion.
InputTypesWith(hasPending) ==
  IF hasPending THEN InputTypes \ {"deleteContentBackward"} ELSE InputTypes

\* The editor state editOnBeforeInput keeps pending: the typed character
\* in place of the selection.
PendingFor(editorState) ==
  LET selection == editorState.selection
      from == getStartOffset(selection)
      caret == SelectionState(selection.anchorKey, from + 1, selection.anchorKey, from + 1,
                              FALSE, TRUE)
  IN  push(editorState,
           replaceText(editorState.content,
                       TargetRange(selection, from, getEndOffset(selection)),
                       <<"b">>, {}, NoEntity),
           selection, caret, "insert-characters")
NoPending == [set |-> FALSE, state |-> BlankEditor]

InputInit ==
  /\ mounted = {"e1"}
  /\ mode = [e \in Editors |-> "edit"]
  /\ HandlerIdle
  /\ \E selection \in SelectionsIn(InputContent) :
       \E changed \in ChangedDoms(Render(InputContent)) :
         \E anchorNode \in AnchorsOf(changed) :
           \E anchorOffset, focusOffset \in OffsetsIn(anchorNode) :
             \E isGecko, hasPending \in BOOLEAN :
               \E inputType \in InputTypesWith(hasPending) :
                 \E mutability \in Mutabilities :
                   LET editorState == EditorState(InputContent, selection)
                   IN  /\ latest = [e \in Editors |->
                                      IF e = "e1" THEN editorState ELSE BlankEditor]
                       /\ dom = [e \in Editors |->
                                   IF e = "e1" THEN changed.root
                                   ELSE Render(BlankEditor.content)]
                       /\ domSel = [anchorNode |-> anchorNode,
                                    anchorOffset |-> anchorOffset,
                                    focusNode |-> anchorNode,
                                    focusOffset |-> focusOffset]
                       /\ out = [op |-> "input", handled |-> FALSE,
                                 isGecko |-> isGecko, inputType |-> inputType,
                                 entities |-> [e \in {"e1"} |-> mutability],
                                 pending |-> IF hasPending
                                             THEN [set |-> TRUE,
                                                   state |-> PendingFor(editorState)]
                                             ELSE NoPending,
                                 hadPending |-> hasPending,
                                 leaf |-> changed.leaf,
                                 before |-> editorState, domBefore |-> changed.root,
                                 selBefore |-> NoSelection,
                                 seen |-> [threw |-> FALSE, dom |-> changed.root,
                                           domSel |-> NoSelection],
                                 threw |-> FALSE, calls |-> <<>>]

\* The input event reaches the editor: editOnInput(editor, e).
InputEvent ==
  /\ out.op = "input" /\ ~out.handled
  /\ \E r \in {editOnInput(latest["e1"], out.pending, dom["e1"], domSel, out.isGecko,
                           out.inputType, out.entities)} :
       /\ latest' = [latest EXCEPT !["e1"] = r.latest]
       /\ dom' = [dom EXCEPT !["e1"] = r.dom]
       /\ domSel' = r.domSel
       /\ out' = [out EXCEPT !.handled = TRUE, !.threw = r.threw, !.calls = r.calls,
                             !.selBefore = domSel,
                             !.seen = reconcileTextNodesAtSelection(dom["e1"], domSel),
                             !.pending = NoPending]
  /\ UNCHANGED <<mounted, mode, handlerVars, traceVars>>

InputNext == InputEvent
SpecInput == InputInit /\ [][InputNext]_vars

\* ------------------------------------------------- claims on editOnInput
InputHandled == out.op = "input" /\ out.handled /\ ~out.threw
\* The editor state the handler reconciles with: the pending state of the
\* before-input handler when there was one, the editor's state otherwise.
ModelState == IF out.hadPending THEN PendingFor(out.before) ELSE out.before
\* The DOM selection is anchored in the changed leaf: in its span or in a
\* text node of it. out.seen holds the DOM and the DOM selection as the
\* handler reads them, its merging of split text nodes done.
AnchorInLeaf ==
  /\ out.selBefore.anchorNode # NoPath
  /\ Len(out.selBefore.anchorNode) >= Len(out.leaf)
  /\ SubSeq(out.selBefore.anchorNode, 1, Len(out.leaf)) = out.leaf
LeafAddress == Decode(NodeAt(out.domBefore, out.leaf).okey)
LeafBlock == BlockForKey(ModelState.content, LeafAddress.blockKey)
LeafRange == BlockTree(LeafBlock)[1].leaves[LeafAddress.leafKey + 1]
LeafModelText == SubSeq(LeafBlock.text, LeafRange.start + 1, LeafRange.end)
\* The text of the anchor node as the handler finds it, a doubled final
\* newline counted once.
LeafDomText ==
  LET text == TextContent(NodeAt(out.seen.dom, out.seen.domSel.anchorNode))
  IN  IF Len(text) >= 2 /\ text[Len(text)] = NL /\ text[Len(text) - 1] = NL
      THEN SubSeq(text, 1, Len(text) - 1) ELSE text
InputUnchanged == InputHandled /\ AnchorInLeaf /\ LeafDomText = LeafModelText
InputChanged == InputHandled /\ AnchorInLeaf /\ LeafDomText # LeafModelText

\* C17: with no pending before-input state and the leaf's DOM text equal to
\* its model text, the editor state is left as it was and no update is
\* issued, unless the input type is a backward deletion that changes the
\* model: then the plain-backspace edit is the new state, the DOM is
\* restored from the model, and the update comes after the restoring.
C17_EqualTextIsNoOp ==
  (InputUnchanged /\ ~out.hadPending) =>
    IF out.inputType = "deleteContentBackward"
       /\ keyCommandPlainBackspace(out.before) # out.before
    THEN /\ out.calls = <<"restoreEditorDOM", "update">>
         /\ latest["e1"] = keyCommandPlainBackspace(out.before)
         /\ dom["e1"] = Render(latest["e1"].content)
    ELSE /\ out.calls = <<>>
         /\ latest["e1"] = out.before
         /\ dom["e1"] = out.domBefore

\* An unchanged leaf, a backward deletion reported, a character removed
\* from the model.
C17_Witness ==
  /\ InputUnchanged /\ ~out.hadPending
  /\ out.inputType = "deleteContentBackward"
  /\ out.calls = <<"restoreEditorDOM", "update">>
  /\ latest["e1"].lastChangeType = "backspace-character"
  /\ latest["e1"].content # out.before.content

\* An unchanged leaf with an input type that is no deletion, or a deletion
\* at the start of the document: nothing is done.
C17_NoOpReached ==
  /\ InputUnchanged /\ ~out.hadPending
  /\ out.inputType = "deleteContentBackward"
  /\ out.calls = <<>>

\* The block of the new document and of the reconciled one with a key.
NewBlock(key) == BlockForKey(latest["e1"].content, key)
OldBlock(key) == BlockForKey(ModelState.content, key)
HasNewBlock(key) == \E i \in 1..Len(latest["e1"].content) : latest["e1"].content[i].key = key

\* C18 as stated: a leaf whose DOM text differs from its model text has
\* exactly its range [start, end) of its own block replaced by the DOM
\* text: the characters before start and after end keep text and metadata,
\* the new characters take the inline style of the character at start.
C18_LeafRangeReplacedInItsBlock ==
  InputChanged =>
    LET key == LeafAddress.blockKey
        old == OldBlock(key)
        start == LeafRange.start
        end == LeafRange.end
        n == Len(old.text)
        m == Len(LeafDomText)
    IN  /\ HasNewBlock(key)
        /\ NewBlock(key).text =
             SubSeq(old.text, 1, start) \o LeafDomText \o SubSeq(old.text, end + 1, n)
        /\ Len(NewBlock(key).characterList) = Len(NewBlock(key).text)
        /\ \A i \in 1..start : NewBlock(key).characterList[i] = old.characterList[i]
        /\ \A i \in (end + 1)..n :
             NewBlock(key).characterList[i - (end - start) + m] = old.characterList[i]
        /\ \A i \in (start + 1)..(start + m) :
             NewBlock(key).characterList[i].style = getInlineStyleAt(old, start)

\* The same with the logical selection in the block of the changed leaf.
C18_InSelectionBlock ==
  (InputChanged /\ ModelState.selection.anchorKey = LeafAddress.blockKey) =>
    C18_LeafRangeReplacedInItsBlock

\* The block the replaced range is in: the one the logical selection names.
RangeBlockKey == ModelState.selection.anchorKey
\* Where the new characters are in that block.
InsertedAt ==
  LET at == Clamp(LeafRange.start, Len(OldBlock(RangeBlockKey).text))
  IN  (at + 1)..(at + Len(LeafDomText))

C19_DroppedReached ==
  /\ InputChanged
  /\ getEntityAt(LeafBlock, LeafRange.start) = "e1"
  /\ out.entities["e1"] = "SEGMENTED"
  /\ Len(LeafDomText) > Len(LeafModelText)
  /\ latest["e1"].lastChangeType = "apply-entity"

\* C20: the offsets of the new selection. On Gecko the anchor is the leaf's
\* start plus the smaller of the DOM selection's offsets and the focus is
\* the anchor plus their distance. Elsewhere the focus is the end of the
\* logical selection plus the change of the leaf's length, and the anchor is
\* the focus when the DOM selection is collapsed, the start of the logical
\* selection otherwise; the DOM offsets themselves have no part.
C20_NewSelectionOffsets ==
  InputChanged =>
    LET selection == latest["e1"].selection
        previous == ModelState.selection
        from == IF previous.isBackward THEN previous.focusOffset ELSE previous.anchorOffset
        to == IF previous.isBackward THEN previous.anchorOffset ELSE previous.focusOffset
        delta == Len(LeafDomText) - Len(LeafModelText)
        a == out.seen.domSel.anchorOffset
        f == out.seen.domSel.focusOffset
        collapsed == out.seen.domSel.anchorNode = out.seen.domSel.focusNode /\ a = f
    IN  IF out.isGecko
        THEN /\ selection.anchorOffset = LeafRange.start + (IF a < f THEN a ELSE f)
             /\ selection.focusOffset = selection.anchorOffset + (IF a < f THEN f - a ELSE a - f)
        ELSE /\ selection.focusOffset = to + delta
             /\ selection.anchorOffset = IF collapsed THEN selection.focusOffset ELSE from

\* Not on Gecko, a DOM selection that is no caret, and offsets that differ
\* from what the DOM offsets would give.
C20_Witness ==
  /\ InputChanged /\ ~out.isGecko
  /\ out.seen.domSel.anchorOffset < out.seen.domSel.focusOffset
  /\ latest["e1"].selection.anchorOffset = getStartOffset(ModelState.selection)
  /\ latest["e1"].selection.anchorOffset # LeafRange.start + out.seen.domSel.anchorOffset
  /\ Len(LeafDomText) < Len(LeafModelText)

\* On Gecko, the DOM selection backward.
C20_GeckoReached ==
  /\ InputChanged /\ out.isGecko
  /\ out.seen.domSel.anchorOffset > out.seen.domSel.focusOffset
  /\ LeafRange.start > 0

\* The DOM selection is anchored in a node with no node carrying an offset
\* key at or above it.
UnaddressedAnchor ==
  /\ out.op = "input" /\ out.handled
  /\ out.selBefore.anchorNode # NoPath
  /\ findAncestorWithOffsetKey(out.domBefore, out.selBefore.anchorNode, AnyNode) = NoPath

\* C21 as stated: an input event whose anchor node has no ancestor with an
\* offset key is a silent no-op: nothing is thrown and the editor state
\* stays as it was.
C21_UnaddressedAnchorIsNoOp ==
  UnaddressedAnchor =>
    /\ ~out.threw
    /\ latest["e1"] = ModelState
    /\ out.calls = IF out.hadPending THEN <<"update">> ELSE <<>>

\* The two ways it goes: the handler throws, or it takes the first leaf
\* found under the anchor node for the changed one.
C21_Throws == UnaddressedAnchor /\ out.threw /\ out.domBefore = Container(<<>>)
C21_TakesFirstLeaf ==
  /\ UnaddressedAnchor /\ ~out.threw /\ ~out.hadPending
  /\ latest["e1"].content # out.before.content

\* ------------------------------------- ContentBlock: style and entity ranges
\* A CharacterMetadata instance with the OrderedSet object that is its
\* style: `styleRef` names the object, `style` is its value. Instances are
\* interned, one per value of {style, entity}; the empty style is the one
\* empty OrderedSet.
MaxRunText == 4
StyledChar(style, entity, styleRef) == [style |-> style, entity |-> entity, styleRef |-> styleRef]
EmptySetRef == "EMPTY_SET"
StyleRefs == {"set1", "set2"}
RunEntities == {NoEntity, "e1"}
\* The instances in the pool, given the style object of each bold instance.
Pool(boldRef) ==
  {StyledChar({}, entity, EmptySetRef) : entity \in RunEntities}
    \cup {StyledChar({"BOLD"}, entity, boldRef[entity]) : entity \in RunEntities}

\* haveEqualStyle(charA, charB), haveEqualEntity(charA, charB): === on the
\* instances, then === on the style objects, resp. on the entity keys.
haveEqualStyle(charA, charB) == charA = charB \/ charA.styleRef = charB.styleRef
haveEqualEntity(charA, charB) == charA = charB \/ charA.entity = charB.entity
StyleRanges == "style"
EntityRanges == "entity"
areEqualFn(kind, charA, charB) ==
  IF kind = StyleRanges THEN haveEqualStyle(charA, charB) ELSE haveEqualEntity(charA, charB)

\* The filters the callers pass: one that accepts every character, one that
\* accepts the characters with an entity.
AcceptAll == "all"
AcceptWithEntity == "entity"
filterFn(filter, value) == filter = AcceptAll \/ value.entity # NoEntity

\* findRangesImmutable(haystack, areEqualFn, filterFn, foundFn): one scan,
\* a range reported at each place where a character is not equal to the one
\* before it, and one for the rest; the calls of foundFn in order.
RECURSIVE ScanRanges(_, _, _, _, _)
ScanRanges(haystack, kind, filter, cursor, nextIndex) ==
  IF nextIndex >= Len(haystack)
  THEN IF filterFn(filter, haystack[Len(haystack)])
       THEN <<[start |-> cursor, end |-> Len(haystack)]>> ELSE <<>>
  ELSE IF ~areEqualFn(kind, haystack[nextIndex], haystack[nextIndex + 1])
  THEN (IF filterFn(filter, haystack[nextIndex])
        THEN <<[start |-> cursor, end |-> nextIndex]>> ELSE <<>>)
         \o ScanRanges(haystack, kind, filter, nextIndex, nextIndex + 1)
  ELSE ScanRanges(haystack, kind, filter, cursor, nextIndex + 1)
findRangesImmutable(haystack, kind, filter) ==
  IF haystack = <<>> THEN <<>> ELSE ScanRanges(haystack, kind, filter, 0, 1)

\* block.findStyleRanges(filterFn, callback), block.findEntityRanges(...)
findStyleRanges(characterList, filter) ==
  findRangesImmutable(characterList, StyleRanges, filter)
findEntityRanges(characterList, filter) ==
  findRangesImmutable(characterList, EntityRanges, filter)

RangesInit ==
  /\ mounted = {"e1"}
  /\ mode = [e \in Editors |-> "edit"]
  /\ latest = [e \in Editors |-> BlankEditor]
  /\ dom = [e \in Editors |-> Render(BlankEditor.content)]
  /\ domSel = NoSelection
  /\ HandlerIdle
  /\ \E boldRef \in [RunEntities -> StyleRefs] :
       \E characterList \in SeqsUpTo(Pool(boldRef), MaxRunText) :
         \E filter \in {AcceptAll, AcceptWithEntity} :
           out = [op |-> "ranges", characterList |-> characterList, filter |-> filter,
                  kind |-> "", ranges |-> <<>>]

FindStyleRanges ==
  /\ out.op = "ranges" /\ out.kind = ""
  /\ out' = [out EXCEPT !.kind = StyleRanges,
                        !.ranges = findStyleRanges(out.characterList, out.filter)]
  /\ UNCHANGED <<editorVars, handlerVars, traceVars>>

FindEntityRanges ==
  /\ out.op = "ranges" /\ out.kind = ""
  /\ out' = [out EXCEPT !.kind = EntityRanges,
                        !.ranges = findEntityRanges(out.characterList, out.filter)]
  /\ UNCHANGED <<editorVars, handlerVars, traceVars>>

RangesNext == FindStyleRanges \/ FindEntityRanges
SpecRanges == RangesInit /\ [][RangesNext]_vars

\* ------------------------------------------------- claims on the ranges
RangesFound == out.op = "ranges" /\ out.kind # "" /\ out.filter = AcceptAll
\* The field the ranges are about, as a value.
FieldOf(char) == IF out.kind = StyleRanges THEN char.style ELSE char.entity
\* The ranges tile [0, length) in increasing order, none empty.
Tiling(ranges, length) ==
  /\ (ranges = <<>>) <=> (length = 0)
  /\ ranges # <<>> => ranges[1].start = 0 /\ ranges[Len(ranges)].end = length
  /\ \A i \in 1..Len(ranges) : ranges[i].start < ranges[i].end
  /\ \A i \in 1..(Len(ranges) - 1) : ranges[i + 1].start = ranges[i].end
\* Within each range the characters agree on the field.
Homogeneous(ranges, characterList) ==
  \A i \in 1..Len(ranges) :
    \A a, b \in (ranges[i].start + 1)..ranges[i].end :
      FieldOf(characterList[a]) = FieldOf(characterList[b])
\* The character after a range differs from its last one on the field.
MaximalRanges(ranges, characterList) ==
  \A i \in 1..Len(ranges) :
    ranges[i].end < Len(characterList) =>
      FieldOf(characterList[ranges[i].end]) # FieldOf(characterList[ranges[i].end + 1])

\* C22 as stated: with a filter accepting every character, the ranges of
\* findStyleRanges and of findEntityRanges are contiguous, disjoint, cover
\* [0, length), come in increasing order, and each is maximal: its
\* characters are equal in style (resp. entity) and the character past its
\* end differs.
C22_RangesTileAndAreMaximal ==
  RangesFound =>
    /\ Tiling(out.ranges, Len(out.characterList))
    /\ Homogeneous(out.ranges, out.characterList)
    /\ MaximalRanges(out.ranges, out.characterList)

\* What holds: the tiling and the agreement inside a range for both, and
\* maximality for the entity ranges.
C22_TilingAndEntityRanges ==
  RangesFound =>
    /\ Tiling(out.ranges, Len(out.characterList))
    /\ Homogeneous(out.ranges, out.characterList)
    /\ out.kind = EntityRanges => MaximalRanges(out.ranges, out.characterList)

\* ------------------------------------------- DraftOffsetKey as a string
\* The offset key as the string the DOM attribute holds, a sequence of
\* characters. (Encode and Decode above are the same pair with the string
\* left abstract.)
MaxKeyText == 2
MaxKeyNumber == 10
KEY_DELIMITER == "-"
KeyChars == {"a", "1", KEY_DELIMITER}
DigitChars == <<"0", "1", "2", "3", "4", "5", "6", "7", "8", "9">>

\* String(n) for a non-negative integer.
RECURSIVE ToDigits(_)
ToDigits(n) ==
  IF n < 10 THEN <<DigitChars[n + 1]>> ELSE ToDigits(n \div 10) \o <<DigitChars[(n % 10) + 1]>>

\* parseInt(string, 10) for a string without sign or blanks: the number its
\* leading digits spell, NaN when it starts with none.
NaN == -1
DigitValue(c) == (CHOOSE d \in 1..10 : DigitChars[d] = c) - 1
IsDigit(c) == \E d \in 1..10 : DigitChars[d] = c
RECURSIVE ParseDigits(_, _)
ParseDigits(str, acc) ==
  IF str = <<>> \/ ~IsDigit(Head(str)) THEN acc
  ELSE ParseDigits(Tail(str), acc * 10 + DigitValue(Head(str)))
parseInt(str) ==
  IF str = <<>> \/ ~IsDigit(Head(str)) THEN NaN ELSE ParseDigits(str, 0)

\* string.split(KEY_DELIMITER) and parts.join(KEY_DELIMITER)
RECURSIVE Split(_, _)
Split(str, part) ==
  IF str = <<>> THEN <<part>>
  ELSE IF Head(str) = KEY_DELIMITER THEN <<part>> \o Split(Tail(str), <<>>)
  ELSE Split(Tail(str), Append(part, Head(str)))
RECURSIVE Join(_)
Join(parts) ==
  IF parts = <<>> THEN <<>>
  ELSE IF Len(parts) = 1 THEN parts[1]
  ELSE parts[1] \o <<KEY_DELIMITER>> \o Join(Tail(parts))

\* DraftOffsetKey.encode(blockKey, decoratorKey, leafKey)
encode(blockKey, decoratorKey, leafKey) ==
  blockKey \o <<KEY_DELIMITER>> \o ToDigits(decoratorKey)
    \o <<KEY_DELIMITER>> \o ToDigits(leafKey)

KeyPath(blockKey, decoratorKey, leafKey) ==
  [blockKey |-> blockKey, decoratorKey |-> decoratorKey, leafKey |-> leafKey]

decode_FromLeft(offsetKey) ==
  LET parts == Split(offsetKey, <<>>)
      part(i) == IF i <= Len(parts) THEN parts[i] ELSE <<>>
  IN  KeyPath(part(1), parseInt(part(2)), parseInt(part(3)))

\* DraftOffsetKey.decode(offsetKey): the last two parts are the leaf key and
\* the decorator key, the parts before them the block key.
decode(offsetKey) ==
  LET parts == Split(offsetKey, <<>>)
      n == Len(parts)
      part(i) == IF i >= 1 THEN parts[i] ELSE <<>>
  IN  KeyPath(Join(SubSeq(parts, 1, n - 2)), parseInt(part(n - 1)), parseInt(part(n)))

\* The valid triples: a block key, not empty, and two numbers.
KeyTriples ==
  {KeyPath(b, d, l) : b \in SeqsUpTo(KeyChars, MaxKeyText) \ {<<>>},
                      d \in 0..MaxKeyNumber, l \in 0..MaxKeyNumber}

\* Every valid triple with its encoded key.
EncodedKeys ==
  {<<triple, encode(triple.blockKey, triple.decoratorKey, triple.leafKey)>> : triple \in KeyTriples}

KeysInit ==
  /\ mounted = {"e1"}
  /\ mode = [e \in Editors |-> "edit"]
  /\ latest = [e \in Editors |-> BlankEditor]
  /\ dom = [e \in Editors |-> Render(BlankEditor.content)]
  /\ domSel = NoSelection
  /\ HandlerIdle
  /\ \E triple \in KeyTriples :
       out = [op |-> "keys", triple |-> triple, step |-> "triple",
              offsetKey |-> <<>>, decoded |-> triple]

EncodeKey ==
  /\ out.op = "keys" /\ out.step = "triple"
  /\ out' = [out EXCEPT !.step = "encoded",
                        !.offsetKey = encode(out.triple.blockKey, out.triple.decoratorKey,
                                             out.triple.leafKey)]
  /\ UNCHANGED <<editorVars, handlerVars, traceVars>>

DecodeKey ==
  /\ out.op = "keys" /\ out.step = "encoded"
  /\ out' = [out EXCEPT !.step = "decoded", !.decoded = decode(out.offsetKey)]
  /\ UNCHANGED <<editorVars, handlerVars, traceVars>>

KeysNext == EncodeKey \/ DecodeKey
SpecKeys == KeysInit /\ [][KeysNext]_vars

\* C23: decoding the encoded offset key of a valid triple gives the triple,
\* and no other valid triple has the same encoded key.
C23_OffsetKeyRoundTrip ==
  (out.op = "keys" /\ out.step = "decoded") =>
    /\ out.decoded = out.triple
    /\ \A other \in EncodedKeys : other[2] = out.offsetKey => other[1] = out.triple

\* A block key that holds the delimiter, a leaf key of two digits.
C23_Witness ==
  /\ out.op = "keys" /\ out.step = "decoded"
  /\ \E i \in 1..Len(out.triple.blockKey) : out.triple.blockKey[i] = KEY_DELIMITER
  /\ out.triple.leafKey >= 10
  /\ out.decoded.leafKey = out.triple.leafKey

\* ------------------------------------------- claims on the rebuilt blocks
\* A block whose characterList has one entry per character of its text.
WellFormedBlock(block) == Len(block.characterList) = Len(block.text)

\* C24: every block of a document that composition resolution commits has a
\* characterList as long as its text, whatever the block's DOM subtree holds
\* (text nodes, line breaks, anonymous nodes, nodes with foreign offset
\* keys): the block rebuilt from the DOM, and every block of every editor's
\* document.
C24_CharacterListAsLongAsText ==
  /\ \A e \in Editors : \A i \in 1..Len(latest[e].content) :
       WellFormedBlock(latest[e].content[i])
  /\ (ReconDone /\ ~out.res.threw) => WellFormedBlock(out.res.value)

\* C24 witness: a block rebuilt from a subtree with a line break, a text node
\* of two characters and a span whose key names another block.
C24_Witness ==
  /\ ReconDone /\ ~out.res.threw
  /\ LET ps == DomPieces(dom["e1"], ReconBlockPath)
     IN  /\ \E i \in 1..Len(ps) : ps[i].text = <<NL>>
         /\ \E i \in 1..Len(ps) : Len(ps[i].text) = 2
         /\ \E i \in 1..Len(ps) :
              LeafKeyOf(dom["e1"], ps[i].path) \in {Encode("b2", 0, 0), Encode("b9", 0, 0)}
  /\ Len(out.res.value.characterList) >= 3

\* --------------------------------------- claims on the committed selection
\* A selection whose keys name blocks of the document and whose offsets lie
\* within the text of those blocks.
ValidPoint(contentState, key, offset) ==
  /\ HasBlock(contentState, key)
  /\ offset >= 0
  /\ offset <= Len(BlockForKey(contentState, key).text)
ValidSelection(contentState, selection) ==
  /\ ValidPoint(contentState, selection.anchorKey, selection.anchorOffset)
  /\ ValidPoint(contentState, selection.focusKey, selection.focusOffset)

\* C25 as claimed: the selection composition resolution commits is valid for
\* the document it commits, wherever the DOM selection is: its keys name
\* blocks of that document and its offsets lie within [0, text length].
C25_CommittedSelectionValid ==
  (SelDone /\ ~out.res.threw) => ValidSelection(SelContent, out.res.value)

\* The DOM selection lies in a block root of the DOM whose key names no
\* block of the document, and the selection takes that key.
C25_UnknownKeyTaken ==
  /\ SelDone /\ ~out.res.threw
  /\ ~InNoBlockRoot(dom["e1"], domSel.anchorNode)
  /\ ~HasBlock(SelContent, out.res.value.anchorKey)

\* ------------------------------------------ claims on the batcher's life
\* A step in which resolveComposition drained a batcher.
DrainStep == ev'.flushed /\ (used' # used \/ timers' # timers)

\* C26: whatever composition-starts, composition-ends, keydowns and deferred
\* resolutions an editor receives, a batcher is drained by
\* stopAndFlushMutations once and let go in the same step, it goes away in
\* no other way, no resolution looks for a batcher when there is none, and a
\* batcher that exists still has its drain ahead (the handler is composing
\* or a deferred resolution that will run is pending).
C26_BatcherDrainedOnceAndDiscarded ==
  /\ [][/\ DrainStep => (domObserver.exists /\ ~domObserver'.exists)
        /\ (domObserver.exists /\ ~domObserver'.exists) => DrainStep
        /\ (domObserver.exists /\ domObserver'.exists) =>
             domObserver'.container = domObserver.container]_vars
  /\ [](ev.threw # "observer")
  /\ [](domObserver.exists => (stillComposing \/ (timers # {} /\ ~resolved)))

\* A keydown drained the batcher while the deferred resolution of the same
\* composition-end is still to run.
C26_Witness ==
  /\ ev.type = "keydown"
  /\ ev.flushed
  /\ DOMAIN ev.mutations # {}
  /\ timers # {}
  /\ ~domObserver.exists

\* A second batcher was started after the first was drained.
C26_SecondBatcher == resolved /\ domObserver.exists /\ stillComposing

\* ------------------------------------------------ claims on the keydowns
ArrowKeys == {"LEFT", "RIGHT", "UP", "DOWN"}

\* C27 as claimed: every keydown of an arrow key handled while the handler
\* is composing has its default action prevented.
C27_ArrowKeysSuppressed ==
  (ev.type = "keydown" /\ ev.wasComposing /\ ev.which \in ArrowKeys) => ev.prevented

\* The left arrow, pressed while composing, is prevented.
C27_LeftSuppressed ==
  ev.type = "keydown" /\ ev.wasComposing /\ ev.isComposing /\ ev.which = "LEFT"
    /\ ev.prevented

\* C28: a keydown handled after composition-end, before the deferred
\* resolution has run, resolves the composition in the same step (the batcher
\* drained and let go, the composition marked resolved, the editor back in
\* edit mode) and the key goes to the edit handler once the resolution has
\* returned; a deferred resolution that runs later in the session resolves
\* nothing and changes nothing.
C28_KeydownResolvesBeforeTimer ==
  /\ [][(ev'.type = "keydown" /\ used'.signals = used.signals + 1 /\ ~stillComposing)
          => /\ ev'.flushed
             /\ ev'.handedToEdit = (ev'.threw = "")
             /\ mode'[ev'.editor] = "edit"
             /\ resolved'
             /\ ~domObserver'.exists]_vars
  /\ [][(session.resolutions >= 1 /\ timers' # timers /\ timers' \subseteq timers)
          => /\ ~ev'.flushed
             /\ ev'.threw = ""
             /\ ~ev'.pushed
             /\ ~ev'.updated
             /\ UNCHANGED <<mode, latest, dom, domObserver, resolved>>]_vars

\* The deferred resolution has run after a keydown resolved the composition
\* and pushed a version.
C28_Witness ==
  /\ ev.type = "timer"
  /\ ~ev.flushed
  /\ session.resolutions = 1
  /\ session.pushes = 1
  /\ session.ends = 1
  /\ mode["e1"] = "edit"
  /\ ~stillComposing
  /\ timers = {}

\* ------------------------- leaf-granularity resolution (the older handler)
MaxLeaves == 11

\* The order of the UTF-16 code units of the characters of an offset key.
CodeOrder == <<"-", "0", "1", "2", "3", "4", "5", "6", "7", "8", "9", "a", "b">>
CharCode(c) == CHOOSE i \in 1..Len(CodeOrder) : CodeOrder[i] = c

\* a < b on strings: by code units, a proper prefix first.
RECURSIVE StringLess(_, _)
StringLess(a, b) ==
  IF b = <<>> THEN FALSE
  ELSE IF a = <<>> THEN TRUE
  ELSE IF Head(a) # Head(b) THEN CharCode(Head(a)) < CharCode(Head(b))
  ELSE StringLess(Tail(a), Tail(b))

\* mutations.map(...).sort(...): the offset keys in descending string order.
RECURSIVE sortedMutations(_)
sortedMutations(mutations) ==
  IF DOMAIN mutations = {} THEN <<>>
  ELSE LET top == CHOOSE a \in DOMAIN mutations :
                    \A b \in DOMAIN mutations : a = b \/ StringLess(b, a)
       IN  <<top>> \o sortedMutations([k \in DOMAIN mutations \ {top} |-> mutations[k]])

\* applyTextMutation(composedChars, offsetKey): the leaf's range is read from
\* the tree of the editor state the resolution started with, the text is
\* replaced in the content as changed so far.
applyTextMutation(editorState, contentState, composedChars, offsetKey) ==
  LET k == decode(offsetKey)
      leaf == GetLeaf(getBlockTree(editorState, k.blockKey), k.decoratorKey, k.leafKey)
      replacementRange ==
        SelectionState(k.blockKey, leaf.start, k.blockKey, leaf.end, FALSE, FALSE)
      block == BlockForKey(contentState, k.blockKey)
  IN  replaceText(contentState, replacementRange, composedChars,
                  getInlineStyleAt(block, leaf.start), getEntityAt(block, leaf.start))

\* sortedMutations.forEach(...) for text mutations.
RECURSIVE ApplyMutations(_, _, _, _)
ApplyMutations(editorState, contentState, mutations, order) ==
  IF order = <<>> THEN contentState
  ELSE ApplyMutations(editorState,
                      applyTextMutation(editorState, contentState,
                                        mutations[Head(order)], Head(order)),
                      mutations, Tail(order))

\* A block of n leaves of one character each, the styles alternating.
LeavesBlockKey == <<"b", "1">>
LeavesBlock(n) ==
  ContentBlock(LeavesBlockKey, [i \in 1..n |-> "a"],
               [i \in 1..n |-> IF i % 2 = 1 THEN BOLD ELSE EMPTY])
ComposedTexts == {<<"b", "b">>, <<"c">>}

LeavesInit ==
  /\ mounted = {"e1"}
  /\ mode = [e \in Editors |-> "edit"]
  /\ \E n \in 1..MaxLeaves :
       /\ latest = [e \in Editors |->
                      IF e = "e1" THEN EditorState(<<LeavesBlock(n)>>, createEmpty(LeavesBlockKey))
                      ELSE BlankEditor]
       /\ \E first, second \in 0..(n - 1) : \E t1, t2 \in ComposedTexts :
            /\ first <= second
            /\ first = second => t1 = t2
            /\ out = [op |-> "leaves", step |-> "flushed",
                      mutations |-> (encode(LeavesBlockKey, 0, first) :> t1)
                                      @@ (encode(LeavesBlockKey, 0, second) :> t2),
                      order |-> <<>>, content |-> <<>>]
  /\ dom = [e \in Editors |-> Render(BlankEditor.content)]
  /\ domSel = NoSelection
  /\ HandlerIdle

ResolveLeaves ==
  /\ out.op = "leaves" /\ out.step = "flushed"
  /\ \E order \in {sortedMutations(out.mutations)} :
       out' = [out EXCEPT
                 !.step = "resolved",
                 !.order = order,
                 !.content = ApplyMutations(latest["e1"], latest["e1"].content,
                                            out.mutations, order)]
  /\ UNCHANGED <<editorVars, handlerVars, traceVars>>

LeavesNext == ResolveLeaves
SpecLeaves == LeavesInit /\ [][LeavesNext]_vars

\* The text the session intends for the block: leaf by leaf, the composed
\* text of a leaf with a mutation, the leaf's own text otherwise.
IntendedText(block, mutations) ==
  LET leaves == BlockTree(block)[1].leaves
  IN  Flatten([i \in 1..Len(leaves) |->
                 LET key == encode(block.key, 0, i - 1)
                 IN  IF key \in DOMAIN mutations THEN mutations[key]
                     ELSE SubSeq(block.text, leaves[i].start + 1, leaves[i].end)])

LeavesResolved == out.op = "leaves" /\ out.step = "resolved"

\* C29 as claimed: the replacements of the mutated leaves of a block are
\* applied from the last leaf to the first, whatever the leaf keys, so each
\* range taken from the pre-composition tree designates the intended
\* characters: the block ends with every mutated leaf's text in that leaf's
\* place.
C29_LeavesAppliedLastToFirst ==
  LeavesResolved =>
    /\ \A i, j \in 1..Len(out.order) :
         i < j => decode(out.order[i]).leafKey > decode(out.order[j]).leafKey
    /\ out.content[1].text = IntendedText(latest["e1"].content[1], out.mutations)

\* With leaf keys below 10 the order is last to first and the text as
\* intended.
C29_BelowTen ==
  LeavesResolved =>
    ((\A k \in DOMAIN out.mutations : decode(k).leafKey < 10) =>
       /\ \A i, j \in 1..Len(out.order) :
            i < j => decode(out.order[i]).leafKey > decode(out.order[j]).leafKey
       /\ out.content[1].text = IntendedText(latest["e1"].content[1], out.mutations))

\* Leaves 9 and 10 both replaced: the text of leaf 10 lands on characters of
\* the text just put in for leaf 9.
C29_WrongCharacters ==
  /\ LeavesResolved
  /\ out.content[1].text # IntendedText(latest["e1"].content[1], out.mutations)

\* --------------------------------------------------- DraftEditorEditHandler
MaxEditEvents == 4

\* The keys of the model: two of the tracked keys and a character key.
EditKeys == {"LEFT", "END", "A"}
\* markTrackedKeyDown's cases: the keys that may change the selection
\* without changing the content.
TrackedKeys == {"UP", "RIGHT", "DOWN", "LEFT", "PAGE_UP", "PAGE_DOWN", "HOME", "END"}
\* e.buttons: no button, or the main button.
NoButtons == 0
ButtonStates == {NoButtons, 1}

markTrackedKeyDown(keysDown, which) ==
  IF which \in TrackedKeys THEN keysDown \cup {which} ELSE keysDown
markKeyUp(keysDown, which) == keysDown \ {which}
updateMouseButtons(buttons) == buttons

NeedsResync_MouseOnly(mouseButtonsDown, keysDown) == mouseButtonsDown # NoButtons

\* `mouseButtonsDown || keysDown.size`
NeedsResync(mouseButtonsDown, keysDown) == mouseButtonsDown # NoButtons \/ keysDown # {}

\* DraftEditorEditHandler.onBeforeInput: the calls it makes, in order.
onBeforeInputCalls(explicit, mouseButtonsDown, keysDown) ==
  IF explicit /\ NeedsResync(mouseButtonsDown, keysDown)
  THEN <<"onSelect", "onBeforeInput">>
  ELSE <<"onBeforeInput">>

\* The module's variables keysDown and mouseButtonsDown, next to the keys
\* and buttons that are down on the machine; an event reaches the edit
\* handler when it happens on the editor while the editor is in edit mode.
EditInit ==
  /\ mounted = {"e1"}
  /\ mode = [e \in Editors |-> "edit"]
  /\ latest = [e \in Editors |-> BlankEditor]
  /\ dom = [e \in Editors |-> Render(BlankEditor.content)]
  /\ domSel = NoSelection
  /\ HandlerIdle
  /\ \E explicit \in BOOLEAN :
       out = [op |-> "edit", explicit |-> explicit, events |-> 0,
              keysDown |-> {}, mouseButtonsDown |-> NoButtons,
              held |-> {}, buttons |-> NoButtons, allSeen |-> TRUE,
              type |-> "", calls |-> <<>>]

EditEvent(type, seen, calls) ==
  [out EXCEPT !.events = @ + 1, !.type = type,
              !.allSeen = @ /\ seen,
              !.calls = IF seen THEN calls ELSE <<>>]

EditKeyDown(which, seen) ==
  /\ out.op = "edit" /\ out.events < MaxEditEvents
  /\ out' = [EditEvent("keydown", seen, <<"onKeyDown">>) EXCEPT
               !.held = @ \cup {which},
               !.keysDown = IF seen /\ out.explicit THEN markTrackedKeyDown(@, which) ELSE @]
  /\ UNCHANGED <<editorVars, handlerVars, traceVars>>

EditKeyUp(which, seen) ==
  /\ out.op = "edit" /\ out.events < MaxEditEvents
  /\ which \in out.held
  /\ out' = [EditEvent("keyup", seen, IF out.explicit THEN <<"onSelect">> ELSE <<>>) EXCEPT
               !.held = @ \ {which},
               !.keysDown = IF seen /\ out.explicit THEN markKeyUp(@, which) ELSE @]
  /\ UNCHANGED <<editorVars, handlerVars, traceVars>>

EditMouse(buttons, seen) ==
  /\ out.op = "edit" /\ out.events < MaxEditEvents
  /\ buttons # out.buttons
  /\ out' = [EditEvent(IF buttons = NoButtons THEN "mouseup" ELSE "mousedown", seen,
                       IF out.explicit /\ buttons = NoButtons THEN <<"onSelect">> ELSE <<>>)
               EXCEPT
               !.buttons = buttons,
               !.mouseButtonsDown =
                 IF seen /\ out.explicit THEN updateMouseButtons(buttons) ELSE @]
  /\ UNCHANGED <<editorVars, handlerVars, traceVars>>

EditBeforeInput ==
  /\ out.op = "edit" /\ out.events < MaxEditEvents
  /\ out' = EditEvent("beforeinput", TRUE,
                      onBeforeInputCalls(out.explicit, out.mouseButtonsDown, out.keysDown))
  /\ UNCHANGED <<editorVars, handlerVars, traceVars>>

EditNext ==
  \/ \E which \in EditKeys : \E seen \in BOOLEAN : EditKeyDown(which, seen)
  \/ \E which \in EditKeys : \E seen \in BOOLEAN : EditKeyUp(which, seen)
  \/ \E buttons \in ButtonStates : \E seen \in BOOLEAN : EditMouse(buttons, seen)
  \/ EditBeforeInput

SpecEdit == EditInit /\ [][EditNext]_vars

\* ------------------------------------------------ claims on the edit handler
BeforeInputHandled == out.op = "edit" /\ out.type = "beforeinput" /\ out.explicit
Resynced == out.calls = <<"onSelect", "onBeforeInput">>
NotResynced == out.calls = <<"onBeforeInput">>

\* C30 as claimed: with explicit caret handling, before-input re-syncs the
\* selection first exactly when a mouse button is down or a tracked key is
\* held.
C30_ResyncIffHeld ==
  BeforeInputHandled =>
    IF out.buttons # NoButtons \/ (out.held \cap TrackedKeys) # {}
    THEN Resynced ELSE NotResynced

\* C30: with explicit caret handling, before-input re-syncs the selection
\* first, and only then runs the before-input handler, exactly when the last
\* mouse event the edit handler received reported a button down or it
\* received the key-down of a tracked key and not yet its key-up; that is
\* the state of the machine as long as every key and mouse event has reached
\* the edit handler. Without explicit caret handling there is no re-sync.
C30_ResyncIffSeenHeld ==
  /\ BeforeInputHandled =>
       IF out.mouseButtonsDown # NoButtons \/ out.keysDown # {}
       THEN Resynced ELSE NotResynced
  /\ (out.op = "edit" /\ out.explicit /\ out.allSeen) =>
       /\ out.keysDown = out.held \cap TrackedKeys
       /\ out.mouseButtonsDown = out.buttons
  /\ (out.op = "edit" /\ out.type = "beforeinput" /\ ~out.explicit) => NotResynced

\* A before-input with a tracked key held and no mouse button down, every
\* event seen: re-synced first.
C30_Witness ==
  /\ BeforeInputHandled /\ out.allSeen
  /\ out.held = {"END"}
  /\ out.buttons = NoButtons
  /\ Resynced

\* A before-input with nothing held, every event seen: no re-sync.
C30_NoResyncReached ==
  /\ BeforeInputHandled /\ out.allSeen
  /\ out.held = {} /\ out.buttons = NoButtons
  /\ out.events >= 3
  /\ NotResynced

\* ------------------------------------------ claims on superseded timers
\* C31 as claimed: a deferred resolution resolves only when it is the one
\* scheduled by the most recent composition-end: no timer that resolves has
\* a later scheduled timer still waiting.
C31_OnlyLatestTimerResolves ==
  [][\A t \in timers :
       (timers' = timers \ {t} /\ ev'.type = "timer" /\ ev'.flushed)
         => \A later \in timers : later.id <= t.id]_vars

\* The timer of a superseded composition-end has resolved the continued
\* session while the timer of the last composition-end is still waiting.
C31_StaleTimerResolved ==
  /\ ev.type = "timer" /\ ev.flushed
  /\ session.ends = 1
  /\ timers # {}
  /\ ~domObserver.exists

\* --------------------------------------------- liveness of the resolution
\* The event loop runs every callback that setTimeout has scheduled: a step
\* that takes a timer away is a step of TimerFire, the only action that
\* does, and TimerFire(t) is enabled whenever t is scheduled.
TimerRuns == \E t \in timers : timers' = timers \ {t}
TimersFire == WF_timers(TimerRuns)
SpecLive == Init /\ [][Next]_vars /\ TimersFire

\* The handler idle again: no batcher, no captured selection, the editor
\* dispatching to the edit handlers.
BackToIdle ==
  /\ ~domObserver.exists
  /\ selectionAtCompositionStart = NoSelectionAtStart
  /\ \A e \in mounted : mode[e] = "edit"

\* A session is open and the handler is not composing: the last composition
\* signal was a composition-end, or a keydown taken for one.
EndedSession == domObserver.exists /\ ~stillComposing

\* C32: provided the scheduled timers fire, a session whose last composition
\* signal is a composition-end (or a keydown taken for one) is resolved: the
\* handler gets back to idle, unless a composition-start continues the
\* session first; and in the end, the handler is composing or idle for good.
C32_EndedSessionIsResolved ==
  /\ EndedSession ~> (BackToIdle \/ stillComposing)
  /\ <>[](stillComposing \/ BackToIdle)

\* A session has ended and its deferred resolution has run.
C32_Witness ==
  /\ BackToIdle
  /\ ev.type = "timer" /\ ev.flushed
  /\ session.ends >= 1
  /\ timers = {}

\* The same with the editor state's inCompositionMode flag cleared as well.
C32_StateOutOfCompositionMode ==
  <>[](stillComposing \/ (BackToIdle /\ \A e \in mounted : ~latest[e].inCompositionMode))

\* -------------------------------------- selection changes in a session
\* editOnSelect, the composition handler's onSelect: the editor's selection
\* becomes the selection read from the DOM, here a caret in a block of the
\* document.
CaretsIn(content) ==
  {SelectionState(content[i].key, o, content[i].key, o, FALSE, TRUE) :
     i \in 1..Len(content), o \in 0..MaxDomOffset}

editOnSelect(e) ==
  /\ e \in mounted
  /\ mode[e] = "composite"
  /\ used.edits < MaxEdits
  /\ \E selection \in CaretsIn(latest[e].content) :
       /\ selection # latest[e].selection
       /\ latest' = [latest EXCEPT ![e].selection = selection]
  /\ used' = [used EXCEPT !.edits = @ + 1]
  /\ UNCHANGED <<mounted, mode, dom, domSel, handlerVars, timers, session, ev, out>>

SelectNext ==
  \/ \E e \in mounted : CompositionStart(e)
  \/ \E e \in mounted : CompositionEnd(e)
  \/ \E e \in mounted : \E key \in PressedKeys : KeyDown(e, key)
  \/ \E t \in timers : TimerFire(t)
  \/ \E e \in mounted : editOnSelect(e)
  \/ TypeText
  \/ DeliverMutations

SpecSelect == Init /\ [][SelectNext]_vars

\* A resolution that committed a version, or reapplied a selection.
Committed == ev.flushed /\ ev.threw = "" /\ ev.type \in {"timer", "keydown"}

\* C33 as claimed: the selectionBefore of the version a resolution commits,
\* and the selection it reapplies when there are no mutations, is the
\* selection the editor had at the composition-start that began the session,
\* whatever selection changes and further composition-starts came after.
C33_SelectionOfSessionStart ==
  Committed =>
    IF ev.pushed THEN latest[ev.editor].selectionBefore = session.began
    ELSE latest[ev.editor].selection = session.began

\* With no composition-start after a selection change of the session, the
\* selection is the one of the session's start.
C33_SelectionOfLastStart ==
  Committed =>
    IF ev.pushed THEN latest[ev.editor].selectionBefore = session.captured
    ELSE latest[ev.editor].selection = session.captured

\* A version was pushed whose selectionBefore is the selection of a later
\* composition-start, not of the one that began the session.
C33_LaterStartCaptured ==
  /\ Committed /\ ev.pushed
  /\ session.captured # session.began
  /\ latest[ev.editor].selectionBefore = session.captured

\* ------------------------------------------------- two editors on a page
\* The second editor's document: one block, its key its own.
SecondContent == <<ContentBlock("b9", <<"a">>, <<EMPTY>>)>>

TwoInit ==
  /\ mounted = Editors
  /\ mode = [e \in Editors |-> "edit"]
  /\ latest = [e \in Editors |->
                 IF e = "e1" THEN EditorState(InitialContent, createEmpty("b1"))
                 ELSE EditorState(SecondContent, createEmpty("b9"))]
  /\ dom = [e \in Editors |-> Render(latest[e].content)]
  /\ domSel = NoSelection
  /\ out = NoOut
  /\ HandlerIdle

TwoNext ==
  \/ \E e \in mounted : CompositionStart(e)
  \/ \E e \in mounted : CompositionEnd(e)
  \/ \E e \in mounted : \E key \in PressedKeys : KeyDown(e, key)
  \/ \E t \in timers : TimerFire(t)
  \/ TypeText
  \/ DeliverMutations

SpecTwo == TwoInit /\ [][TwoNext]_vars

\* C34 as claimed: with two editors, a resolution performed for an editor
\* drains a batcher that observes that editor's own container and uses the
\* selection captured from that editor.
C34_EditorsDoNotInterfere ==
  (ev.flushed /\ ev.type \in {"timer", "keydown"}) =>
    /\ ev.container = ev.editor
    /\ session.editor = ev.editor

\* A resolution for one editor has drained the batcher of the other editor's
\* container.
C34_OtherContainerDrained ==
  /\ ev.flushed /\ ev.threw = ""
  /\ ev.container # ev.editor
  /\ DOMAIN ev.mutations # {}

\* A resolution for one editor has put the selection captured from the other
\* editor into its editor state.
C34_OtherSelectionUsed ==
  /\ ev.flushed /\ ev.threw = ""
  /\ session.editor # ev.editor
  /\ latest[ev.editor].selection.anchorKey \notin
       {latest[ev.editor].content[i].key : i \in 1..Len(latest[ev.editor].content)}

\* -------------------------------------------- claims on the stopped batcher
\* C35: stopAndFlushMutations returns the entries of the records the browser
\* had queued and not yet delivered together with those already registered,
\* and from its return until the batcher is started again no change of the
\* DOM queues a record or adds an entry, and no mapping it has returned
\* changes.
C35_FlushTakesQueuedAndStops ==
  /\ [][(ObsRunning /\ out'.last = "flush" /\ out'.steps = out.steps + 1)
          => LET calls == CallsOf(out.granularity, out.observer.pending, dom["e1"])
             IN  \A i \in 1..Len(calls) :
                   calls[i][1] \in DOMAIN Last(out'.returned).mutations]_vars
  /\ [][ObsRunning =>
          \A i \in 1..Len(out.returned) : out'.returned[i] = out.returned[i]]_vars
  /\ []((ObsRunning /\ out.stopped) =>
          /\ out.observer.mutations = NoMutations
          /\ out.observer.pending = <<>>)

\* A flush returned the entry of a record that was still queued, and the DOM
\* has changed since without the batcher noticing.
C35_Witness ==
  /\ ObsRunning /\ out.stopped
  /\ out.last = "change"
  /\ Len(out.returned) = 1
  /\ DOMAIN out.returned[1].mutations # {}
  /\ out.steps = 3
  /\ out.observer.mutations = NoMutations

\* ------------------------------------------- changes inside a removed block
\* A block root removed from the container stays observed until the records
\* of its removal have been delivered; a change of a text node inside it in
\* that time is reported with the node of the removed subtree as its target.
TypeDetached ==
  /\ domObserver.exists
  /\ domObserver.pending # <<>>
  /\ used.edits < MaxEdits
  /\ LET last == domObserver.pending[Len(domObserver.pending)]
     IN  /\ "detached" \notin DOMAIN last
         /\ last.type = "childList"
         /\ last.removedNodes # <<>>
         /\ LET node == last.removedNodes[1]
                tree == Container(<<node>>)
            IN  \E path \in TextPaths(tree) : \E data \in Retyped(NodeAt(tree, path).data) :
                  domObserver' =
                    Observe(domObserver,
                            MutationRecord("characterData", path, <<>>, <<>>)
                              @@ [detached |-> ReplaceAt(tree, path, Text(data)).kids[1]])
  /\ used' = [used EXCEPT !.edits = @ + 1]
  /\ UNCHANGED <<mounted, mode, latest, dom, domSel, resolved, stillComposing,
                 selectionAtCompositionStart, timers, session, ev, out>>

DetachedNext ==
  \/ \E e \in mounted : CompositionStart(e)
  \/ \E e \in mounted : CompositionEnd(e)
  \/ \E e \in mounted : \E key \in PressedKeys : KeyDown(e, key)
  \/ \E t \in timers : TimerFire(t)
  \/ TypeText
  \/ RemoveBlock
  \/ RestoreBlock
  \/ TypeDetached
  \/ DeliverMutations

SpecDetached == Init /\ [][DetachedNext]_vars

\* C36 as claimed: a version committed by a resolution holds no block whose
\* root node is missing from the container when the batcher is drained,
\* whatever records were delivered after the removal of the root.
C36_RemovedBlockIsAbsent ==
  [][\A e \in mounted :
       (ev'.pushed /\ ev'.editor = e /\ session'.pushes = session.pushes + 1)
         => \A i \in 1..Len(latest'[e].content) :
              HasRootFor(dom[domObserver.container], latest'[e].content[i].key)]_vars

\* A committed version holds block b2 although the records drained for it
\* began with the removal of the root of b2 and the root was not put back.
C36_RemovedBlockCommitted ==
  /\ ev.pushed
  /\ "b2" \in DOMAIN ev.mutations
  /\ ~ev.mutations["b2"].isNull
  /\ "detached" \in DOMAIN ev.mutations["b2"]
  /\ \E i \in 1..Len(latest[ev.editor].content) : latest[ev.editor].content[i].key = "b2"

\* ------------------------------------------------ what a resolution leaves
\* A document whose blocks differ in type, depth and data.
FrameContent ==
  <<[InitialContent[1] EXCEPT !.type = "header-one", !.data = <<"d1">>],
    [InitialContent[2] EXCEPT !.type = "unordered-list-item", !.depth = 1,
                              !.data = <<"d2">>]>>

FrameInit ==
  /\ mounted = {"e1"}
  /\ mode = [e \in Editors |-> "edit"]
  /\ latest = [e \in Editors |->
                 IF e = "e1" THEN EditorState(FrameContent, createEmpty("b1"))
                 ELSE BlankEditor]
  /\ dom = [e \in Editors |-> Render(latest[e].content)]
  /\ domSel = NoSelection
  /\ out = NoOut
  /\ HandlerIdle

SpecFrame == FrameInit /\ [][Next]_vars

\* The keys of `after` are those of `before` that survive, in their order.
KeptInOrder(before, after) ==
  LET kept == {after[i].key : i \in 1..Len(after)}
  IN  BlockKeys(after) = SelectSeq(BlockKeys(before), LAMBDA key : key \in kept)

\* C37: a resolution that commits a version carries every block without an
\* entry in the drained mutations over unchanged, gives every block of the
\* new document the key, type, depth and data of a block of the old one,
\* keeps the surviving blocks in their order and keeps the entity map; a
\* resolution that commits nothing leaves the document as it was.
C37_ResolutionChangesOnlyMutatedBlocks ==
  [][\A e \in mounted :
       (ev'.flushed /\ ev'.editor = e /\ ev'.type \in {"timer", "keydown"})
         => LET before == latest[e].content
                after == latest'[e].content
            IN  /\ latest'[e].entityMap = latest[e].entityMap
                /\ ~ev'.pushed => after = before
                /\ \A i \in 1..Len(before) :
                     before[i].key \notin DOMAIN ev'.mutations
                       => \E j \in 1..Len(after) : after[j] = before[i]
                /\ \A j \in 1..Len(after) : \E i \in 1..Len(before) :
                     /\ after[j].key = before[i].key
                     /\ after[j].type = before[i].type
                     /\ after[j].depth = before[i].depth
                     /\ after[j].data = before[i].data
                /\ KeptInOrder(before, after)]_vars

\* A committed version in which b1 was rebuilt with another text and kept
\* its type and data, and b2, without an entry, is the block it was.
C37_Witness ==
  /\ ev.pushed
  /\ DOMAIN ev.mutations = {"b1"}
  /\ Len(latest["e1"].content) = 2
  /\ latest["e1"].content[1].text # FrameContent[1].text
  /\ latest["e1"].content[1].type = "header-one"
  /\ latest["e1"].content[1].data = <<"d1">>
  /\ latest["e1"].content[2] = FrameContent[2]

\* ------------------------------- the caret against the reconstructed text
\* A caret of the DOM selection inside a text node of a block root.
CaretInBlockText ==
  /\ domSel.anchorNode # NoPath
  /\ domSel.focusNode = domSel.anchorNode
  /\ domSel.focusOffset = domSel.anchorOffset
  /\ NodeAt(dom["e1"], domSel.anchorNode).tag = "#text"
  /\ domSel.anchorOffset <= Len(NodeAt(dom["e1"], domSel.anchorNode).data)
  /\ findAncestorWithOffsetKey(dom["e1"], domSel.anchorNode, HasDataBlock) # NoPath

\* The characters block reconstruction puts before the caret: the texts of
\* the iterated nodes before the caret's node, and the caret's DOM offset.
CharsBeforeCaret(root, selectionNode, selectionOffset) ==
  LET blockNode == findAncestorWithOffsetKey(root, selectionNode, HasDataBlock)
      nodes == IteratedNodes(root, blockNode)
      at == CHOOSE i \in 1..Len(nodes) : nodes[i] = selectionNode
  IN  Len(Flatten([i \in 1..(at - 1) |-> NodeText(NodeAt(root, nodes[i]))]))
        + selectionOffset

\* C38 as claimed: for a caret inside a text node of a block, the offset of
\* the reconstructed selection is the number of characters of the block's
\* reconstructed text that precede the caret, also when line breaks or
\* nodes without a key precede the caret in the block.
C38_CaretOffsetMatchesReconstructedText ==
  (SelDone /\ CaretInBlockText /\ ~out.res.threw) =>
    /\ out.res.value.anchorOffset
         = CharsBeforeCaret(dom["e1"], domSel.anchorNode, domSel.anchorOffset)
    /\ out.res.value.focusOffset = out.res.value.anchorOffset

\* The caret after "b" in the block of "a", a line break and "b": the
\* reconstructed text has three characters before it, the selection says 2.
C38_LineBreakNotCounted ==
  /\ SelDone /\ CaretInBlockText /\ ~out.res.threw
  /\ out.res.value.anchorKey = "b2"
  /\ out.res.value.anchorOffset = 2
  /\ CharsBeforeCaret(dom["e1"], domSel.anchorNode, domSel.anchorOffset) = 3

\* ------------------------------------- what input reconciliation leaves
\* C39 as claimed: reconciling a changed leaf changes only the block the
\* leaf's offset key names; every other block of the document is the block
\* it was, wherever the logical selection is.
C39_OnlyLeafBlockChanged ==
  InputChanged =>
    \A i \in 1..Len(ModelState.content) :
      LET key == ModelState.content[i].key
      IN  key # LeafAddress.blockKey
            => HasNewBlock(key) /\ NewBlock(key) = OldBlock(key)

\* The leaf of b1 changed in the DOM while the logical selection was in b2:
\* b2 has another text afterwards and b1 has the text it had.
C39_OtherBlockChanged ==
  /\ InputChanged
  /\ LeafAddress.blockKey = "b1"
  /\ ModelState.selection.anchorKey = "b2"
  /\ NewBlock("b2").text # OldBlock("b2").text
  /\ NewBlock("b1") = OldBlock("b1")

\* C40 as claimed: the selection committed by the reconciliation of a
\* changed leaf has its anchor and focus offsets between 0 and the length
\* of the new text of the edited block, for every previous selection and
\* every new DOM text.
C40_CommittedOffsetsInEditedBlock ==
  InputChanged =>
    LET edited == NewBlock(LeafAddress.blockKey)
        selection == latest["e1"].selection
    IN  /\ selection.anchorOffset \in 0..Len(edited.text)
        /\ selection.focusOffset \in 0..Len(edited.text)

\* The logical caret at the start of the block of the changed leaf, the DOM
\* text a character shorter than the model text, not Firefox: the committed
\* caret is at offset -1.
C40_NegativeOffset ==
  /\ InputChanged
  /\ ~out.isGecko
  /\ ModelState.selection.anchorKey = LeafAddress.blockKey
  /\ ModelState.selection.focusKey = LeafAddress.blockKey
  /\ out.selBefore.anchorOffset = 0 /\ out.selBefore.focusOffset = 0
  /\ Len(LeafDomText) < Len(LeafModelText)
  /\ latest["e1"].selection.anchorOffset = -1

====
